---- MODULE Spec2Model ----
(***************************************************************************)
(* A model of ghp (adrianpk/ghp): the LLM evaluators (EvaluateJSON of the  *)
(* OpenAI and of the Gemini client), the TTL disk cache with the GitHub    *)
(* operations that use it, and Submit with its per-repository tasks.       *)
(***************************************************************************)
EXTENDS Integers, Sequences, FiniteSets, TLC

\* ------------------------------------------------------------------ bounds
MaxChunks == 3
MaxPara == 2

\* --------------------------------------------------------------- variables
VARIABLES
    provider,   \* which Client NewLLMClient built: "openai" or "gemini"
    outKind,    \* what `out` points to: "slice" or "struct"
    chunks,     \* in.Chunks
    para,       \* openAIClient.para
    pc,         \* position of the EvaluateJSON call itself
    next,       \* loop variable i of the dispatch loop
    sem,        \* number of tokens in the channel sem
    wg,         \* counter of the WaitGroup
    task,       \* the goroutine of each chunk
    outSlice,   \* the local outSlice
    firstErr,   \* the local firstErr
    errMu,      \* holder of errMu (0: unlocked)
    out,        \* the value `out` points to
    retErr,     \* the error EvaluateJSON returned
    launched,   \* the LLM call chains started so far: the chunk each carries
    llmOk,      \* every LLM response so far was well-formed JSON of the expected shape
    \* --- the disk cache and the GitHub operations over it
    homeSet,    \* os.UserCacheDir can name the cache root ($HOME or $XDG_CACHE_HOME is set)
    files,      \* the files under the cache root, by path
    now,        \* the clock, in hours
    ev,         \* the last cache or GitHub operation: its arguments and what it returned
    query,      \* the provider's answer to the GraphQL query: the pinned and the owned nodes
    lastWrite,  \* per path, the caller's last direct writeCache call: whether it succeeded, its value and time
    \* --- one service.Submit call
    submitPc,   \* where Submit is: "start", "spawn", "wait", "returned", "aborted", "crashed"
    repos,      \* the repositories DiscoverUserRepos returned
    results,    \* the results slice, one RepoResult per repository
    submitSem,  \* the tokens in Submit's sem channel
    submitWg,   \* the count of Submit's WaitGroup
    repoTask,   \* per repository, where its goroutine is: "new", "acquire", "eval", "done"; with the fan-outs, a record of its locals
    report,     \* what Submit returned
    \* --- one call of a function without side effects
    fnArg,      \* the function called and its arguments
    fnRet       \* whether it has returned, and what

evalVars == <<provider, outKind, chunks, para, pc, next, sem, wg, task,
              outSlice, firstErr, errMu, out, retErr, launched, llmOk>>

cacheVars == <<homeSet, files, now, ev, query, lastWrite>>

submitVars == <<submitPc, repos, results, submitSem, submitWg, repoTask, report>>

fnVars == <<fnArg, fnRet>>

vars == <<evalVars, cacheVars, submitVars, fnVars>>

\* ------------------------------------------------------------------ values
NoErr == [task |-> 0, kind |-> "nil"]
Err(i, kind) == [task |-> i, kind |-> kind]

\* The zero value of a decoded element, and an element decoded from the
\* object whose payload is p (p >= 1).
ZeroVal == 0

\* A response text, as its sequence of lexical tokens.
Tok(s, n) == [s |-> s, n |-> n]
LBrace == Tok("{", 0)
RBrace == Tok("}", 0)
LBrack == Tok("[", 0)
RBrack == Tok("]", 0)
Comma == Tok(",", 0)
Word == Tok("w", 0)
Payload(p) == Tok("v", p)

ObjText(p) == <<LBrace, Payload(p), RBrace>>

RECURSIVE ObjList(_)
\* {1},{2},...,{n} without the brackets
ObjList(n) ==
    IF n = 0 THEN <<>>
    ELSE IF n = 1 THEN ObjText(1)
    ELSE ObjList(n - 1) \o <<Comma>> \o ObjText(n)

ArrText(n) == <<LBrack>> \o ObjList(n) \o <<RBrack>>

\* --------------------------------------------------- decoding (pure code)
IsObj(t) ==
    /\ Len(t) = 3
    /\ t[1] = LBrace
    /\ t[2].s = "v"
    /\ t[3] = RBrace

\* the inner part of an array: objects separated by commas
IsObjList(t) ==
    \/ Len(t) = 0
    \/ /\ (Len(t) + 1) % 4 = 0
       /\ \A j \in 1..((Len(t) + 1) \div 4) :
            /\ IsObj(SubSeq(t, 4 * j - 3, 4 * j - 1))
            /\ (4 * j <= Len(t) => t[4 * j] = Comma)

IsArr(t) ==
    /\ Len(t) >= 2
    /\ t[1] = LBrack
    /\ t[Len(t)] = RBrack
    /\ IsObjList(SubSeq(t, 2, Len(t) - 1))

ArrVals(t) == [j \in 1..((Len(t) - 1) \div 4) |-> t[4 * j - 1].n]

\* json.Unmarshal of a text into a target of the given kind: an object decodes
\* into a struct, an array of objects into a slice; anything else is an error
\* and leaves the target alone.
Unmarshal(t, kind) ==
    IF kind = "struct" /\ IsObj(t) THEN [ok |-> TRUE, val |-> t[2].n]
    ELSE IF kind = "slice" /\ IsArr(t) THEN [ok |-> TRUE, val |-> ArrVals(t)]
    ELSE [ok |-> FALSE, val |-> ZeroVal]

FirstIndex(s, tok) ==
    IF \E i \in 1..Len(s) : s[i] = tok
    THEN CHOOSE i \in 1..Len(s) : s[i] = tok /\ \A j \in 1..(i - 1) : s[j] # tok
    ELSE 0

LastIndex(s, tok) ==
    IF \E i \in 1..Len(s) : s[i] = tok
    THEN CHOOSE i \in 1..Len(s) : s[i] = tok /\ \A j \in (i + 1)..Len(s) : s[j] # tok
    ELSE 0

\* extractJSON: the substring from the first "{" to the last "}"
extractJSON(s) ==
    LET start == FirstIndex(s, LBrace)
        end == LastIndex(s, RBrace)
    IN  IF start = 0 \/ end = 0 \/ end <= start
        THEN [ok |-> FALSE, js |-> <<>>]
        ELSE [ok |-> TRUE, js |-> SubSeq(s, start, end)]

\* The decoding at the end of evalOne: the target is one element.
evalOneDecode(txt) ==
    LET u == Unmarshal(txt, "struct")
        x == extractJSON(txt)
        u2 == Unmarshal(x.js, "struct")
    IN  IF u.ok THEN [ok |-> TRUE, val |-> u.val, kind |-> "nil"]
        ELSE IF ~x.ok THEN [ok |-> FALSE, val |-> ZeroVal, kind |-> "json parse"]
        ELSE IF ~u2.ok THEN [ok |-> FALSE, val |-> ZeroVal, kind |-> "json parse(2)"]
        ELSE [ok |-> TRUE, val |-> u2.val, kind |-> "nil"]

\* The decoding at the end of geminiClient.EvaluateJSON: the target is `out`.
geminiDecode(txt, kind) ==
    LET u == Unmarshal(txt, kind)
        x == extractJSON(txt)
        u2 == Unmarshal(x.js, kind)
        u3 == Unmarshal(x.js, "struct")
    IN  IF u.ok THEN [ok |-> TRUE, val |-> u.val, kind |-> "nil"]
        ELSE IF ~x.ok THEN [ok |-> FALSE, val |-> ZeroVal, kind |-> "gemini json parse"]
        ELSE IF u2.ok THEN [ok |-> TRUE, val |-> u2.val, kind |-> "nil"]
        ELSE IF kind = "slice" /\ u3.ok THEN [ok |-> TRUE, val |-> <<u3.val>>, kind |-> "nil"]
        ELSE [ok |-> FALSE, val |-> ZeroVal, kind |-> "gemini json parse(2)"]

\* What the LLM may answer to a request that carries content c.
Texts(c) ==
    { ObjText(c),
      <<Word>> \o ObjText(c) \o <<Word>>,
      ArrText(0), ArrText(1), ArrText(2),
      <<Word>> \o ArrText(2) \o <<Word>>,
      <<Word>>,
      <<>> }

\* What the LLM may answer to the request of one chunk (evalOne).
ElemTexts(c) ==
    { ObjText(c),
      <<Word>> \o ObjText(c) \o <<Word>>,
      ArrText(2),
      <<Word>> }

\* --------------------------------------------- openAIClient.EvaluateJSON
MaxAttempts == 3

K == Len(chunks)
Tasks == 1..K

IdleTask == [pc |-> "idle", attempt |-> 0, res |-> ZeroVal, err |-> NoErr,
             sawNil |-> FALSE, failed |-> FALSE]

\* out must be a pointer to a slice
OutAccepted == outKind = "slice"

\* a send that never blocks, as on a channel without a capacity bound
SemHasRoom_Unbounded == TRUE

\* sem <- struct{}{} can proceed: the channel has capacity c.para
SemHasRoom == sem < para

\* a loop that gives up once an error is recorded
LoopContinues_StopOnErr == next <= K /\ firstErr = NoErr

\* for i := range in.Chunks
LoopContinues == next <= K

\* no mutual exclusion around the first-error holder
MutexFree_NoLock == TRUE

\* errMu.Lock() can proceed
MutexFree == errMu = 0

\* every goroutine sees the loop variable's last value
StoreAt_LastIndex(slice, i, v) == [slice EXCEPT ![Len(slice)] = v]

\* outSlice.Index(i).Set(resPtr.Elem())
StoreAt(slice, i, v) == [slice EXCEPT ![i] = v]

EvalInit ==
    /\ provider \in {"openai", "gemini"}
    /\ outKind \in {"slice", "struct"}
    /\ \E k \in 0..MaxChunks : chunks = [i \in 1..k |-> [Path |-> i, Content |-> i]]
    /\ para \in 1..MaxPara
    /\ pc = "entry"
    /\ next = 1
    /\ sem = 0
    /\ wg = 0
    /\ task = [i \in Tasks |-> IdleTask]
    /\ outSlice = <<>>
    /\ firstErr = NoErr
    /\ errMu = 0
    /\ out = IF outKind = "slice" THEN <<>> ELSE ZeroVal
    /\ retErr = NoErr
    /\ launched = <<>>
    /\ llmOk = TRUE

OpenAIReject ==
    /\ provider = "openai"
    /\ pc = "entry"
    /\ ~OutAccepted
    /\ retErr' = Err(0, "out must be a pointer to a slice")
    /\ pc' = "returned"
    /\ UNCHANGED <<provider, outKind, chunks, para, next, sem, wg, task,
                   outSlice, firstErr, errMu, out, launched, llmOk>>
    /\ UNCHANGED <<cacheVars, submitVars, fnVars>>

OpenAISetup ==
    /\ provider = "openai"
    /\ pc = "entry"
    /\ OutAccepted
    /\ outSlice' = [i \in Tasks |-> ZeroVal]
    /\ pc' = "loop"
    /\ UNCHANGED <<provider, outKind, chunks, para, next, sem, wg, task,
                   firstErr, errMu, out, retErr, launched, llmOk>>
    /\ UNCHANGED <<cacheVars, submitVars, fnVars>>

\* wg.Add(1); sem <- struct{}{}; go func() { ... }()
Dispatch ==
    /\ pc = "loop"
    /\ LoopContinues
    /\ SemHasRoom
    /\ wg' = wg + 1
    /\ sem' = sem + 1
    /\ task' = [task EXCEPT ![next].pc = "call"]
    /\ launched' = Append(launched, chunks[next].Content)
    /\ pc' = "sleep"
    /\ UNCHANGED <<provider, outKind, chunks, para, next, outSlice, firstErr,
                   errMu, out, retErr, llmOk>>
    /\ UNCHANGED <<cacheVars, submitVars, fnVars>>

\* time.Sleep(delay), then the next iteration
Sleep ==
    /\ pc = "sleep"
    /\ next' = next + 1
    /\ pc' = "loop"
    /\ UNCHANGED <<provider, outKind, chunks, para, sem, wg, task, outSlice,
                   firstErr, errMu, out, retErr, launched, llmOk>>
    /\ UNCHANGED <<cacheVars, submitVars, fnVars>>

LoopExit ==
    /\ pc = "loop"
    /\ ~LoopContinues
    /\ pc' = "wait"
    /\ UNCHANGED <<provider, outKind, chunks, para, next, sem, wg, task,
                   outSlice, firstErr, errMu, out, retErr, launched, llmOk>>
    /\ UNCHANGED <<cacheVars, submitVars, fnVars>>

\* a call that gives up after its second attempt
MayRetry_Twice(attempt) == attempt + 1 < MaxAttempts - 1

\* attempt++ and attempt < 3: the loop of evalOne goes round again
MayRetry(attempt) == attempt + 1 < MaxAttempts

\* One attempt of evalOne for chunk i: the transport fails (retried up to
\* MaxAttempts times), the response has no choice, or it has a text. A local
\* of the goroutine is reset where the code reads it for the last time; what
\* stays of a finished call is whether it failed.
AttemptTransportErr(i) ==
    /\ task[i].pc = "call"
    /\ task' = [task EXCEPT ![i] =
                  IF MayRetry(@.attempt)
                  THEN [@ EXCEPT !.attempt = @ + 1]
                  ELSE [@ EXCEPT !.attempt = 0, !.pc = "lock",
                                 !.err = Err(i, "transport"), !.failed = TRUE]]
    /\ llmOk' = FALSE
    /\ UNCHANGED <<provider, outKind, chunks, para, pc, next, sem, wg,
                   outSlice, firstErr, errMu, out, retErr, launched>>
    /\ UNCHANGED <<cacheVars, submitVars, fnVars>>

AttemptNoChoice(i) ==
    /\ task[i].pc = "call"
    /\ task' = [task EXCEPT ![i].pc = "lock", ![i].failed = TRUE, ![i].attempt = 0,
                            ![i].err = Err(i, "empty completion")]
    /\ llmOk' = FALSE
    /\ UNCHANGED <<provider, outKind, chunks, para, pc, next, sem, wg,
                   outSlice, firstErr, errMu, out, retErr, launched>>
    /\ UNCHANGED <<cacheVars, submitVars, fnVars>>

AttemptText(i) ==
    /\ task[i].pc = "call"
    /\ \E txt \in ElemTexts(chunks[i].Content) :
         LET d == evalOneDecode(txt)
         IN  /\ task' = [task EXCEPT ![i] =
                          IF d.ok
                          THEN [@ EXCEPT !.res = d.val, !.pc = "store", !.attempt = 0]
                          ELSE [@ EXCEPT !.err = Err(i, d.kind), !.pc = "lock",
                                         !.failed = TRUE, !.attempt = 0]]
             /\ llmOk' = (llmOk /\ IsObj(txt))
    /\ UNCHANGED <<provider, outKind, chunks, para, pc, next, sem, wg,
                   outSlice, firstErr, errMu, out, retErr, launched>>
    /\ UNCHANGED <<cacheVars, submitVars, fnVars>>

\* err == nil: outSlice.Index(i).Set(resPtr.Elem())
Store(i) ==
    /\ task[i].pc = "store"
    /\ outSlice' = StoreAt(outSlice, i, task[i].res)
    /\ task' = [task EXCEPT ![i].pc = "release", ![i].res = ZeroVal]
    /\ UNCHANGED <<provider, outKind, chunks, para, pc, next, sem, wg,
                   firstErr, errMu, out, retErr, launched, llmOk>>
    /\ UNCHANGED <<cacheVars, submitVars, fnVars>>

\* errMu.Lock()
Lock(i) ==
    /\ task[i].pc = "lock"
    /\ MutexFree
    /\ errMu' = i
    /\ task' = [task EXCEPT ![i].pc = "chk"]
    /\ UNCHANGED <<provider, outKind, chunks, para, pc, next, sem, wg,
                   outSlice, firstErr, out, retErr, launched, llmOk>>
    /\ UNCHANGED <<cacheVars, submitVars, fnVars>>

\* if firstErr == nil
CheckFirst(i) ==
    /\ task[i].pc = "chk"
    /\ task' = [task EXCEPT ![i].sawNil = (firstErr = NoErr), ![i].pc = "set"]
    /\ UNCHANGED <<provider, outKind, chunks, para, pc, next, sem, wg,
                   outSlice, firstErr, errMu, out, retErr, launched, llmOk>>
    /\ UNCHANGED <<cacheVars, submitVars, fnVars>>

\* firstErr = err; errMu.Unlock()
SetFirst(i) ==
    /\ task[i].pc = "set"
    /\ firstErr' = IF task[i].sawNil THEN task[i].err ELSE firstErr
    /\ errMu' = 0
    /\ task' = [task EXCEPT ![i].pc = "release", ![i].err = NoErr, ![i].sawNil = FALSE]
    /\ UNCHANGED <<provider, outKind, chunks, para, pc, next, sem, wg,
                   outSlice, out, retErr, launched, llmOk>>
    /\ UNCHANGED <<cacheVars, submitVars, fnVars>>

\* The goroutine ends: the deferred <-sem, then the deferred wg.Done()
Exit(i) ==
    /\ task[i].pc = "release"
    /\ sem' = sem - 1
    /\ wg' = wg - 1
    /\ task' = [task EXCEPT ![i].pc = "done"]
    /\ UNCHANGED <<provider, outKind, chunks, para, pc, next, outSlice,
                   firstErr, errMu, out, retErr, launched, llmOk>>
    /\ UNCHANGED <<cacheVars, submitVars, fnVars>>

\* wg.Wait(); outVal.Elem().Set(outSlice); return firstErr
WaitReturn ==
    /\ pc = "wait"
    /\ wg = 0
    /\ out' = outSlice
    /\ retErr' = firstErr
    /\ pc' = "returned"
    /\ UNCHANGED <<provider, outKind, chunks, para, next, sem, wg, task,
                   outSlice, firstErr, errMu, launched, llmOk>>
    /\ UNCHANGED <<cacheVars, submitVars, fnVars>>

\* --------------------------------------------- geminiClient.EvaluateJSON
\* The whole call: one request that carries the prompt and the content of the
\* first chunk only, then the decoding of the one response into `out`.
GeminiContent == IF K > 0 THEN chunks[1].Content ELSE 0

GeminiFail(kind) ==
    /\ retErr' = Err(0, kind)
    /\ llmOk' = FALSE
    /\ UNCHANGED out

\* the text is JSON of the shape the caller's `out` expects
WellFormedFor(txt, kind) == IF kind = "slice" THEN IsArr(txt) ELSE IsObj(txt)

GeminiEvaluateJSON ==
    /\ provider = "gemini"
    /\ pc = "entry"
    /\ launched' = <<GeminiContent>>
    /\ \/ GeminiFail("transport")
       \/ GeminiFail("gemini api error")
       \/ GeminiFail("no candidates from gemini")
       \/ \E txt \in Texts(GeminiContent) :
            LET d == geminiDecode(txt, outKind)
            IN  /\ retErr' = IF d.ok THEN NoErr ELSE Err(0, d.kind)
                /\ out' = IF d.ok THEN d.val ELSE out
                /\ llmOk' = WellFormedFor(txt, outKind)
    /\ pc' = "returned"
    /\ UNCHANGED <<provider, outKind, chunks, para, next, sem, wg, task,
                   outSlice, firstErr, errMu>>
    /\ UNCHANGED <<cacheVars, submitVars, fnVars>>

EvalNext ==
    \/ OpenAIReject
    \/ OpenAISetup
    \/ Dispatch
    \/ Sleep
    \/ LoopExit
    \/ \E i \in Tasks : AttemptTransportErr(i)
    \/ \E i \in Tasks : AttemptNoChoice(i)
    \/ \E i \in Tasks : AttemptText(i)
    \/ \E i \in Tasks : Store(i)
    \/ \E i \in Tasks : Lock(i)
    \/ \E i \in Tasks : CheckFirst(i)
    \/ \E i \in Tasks : SetFirst(i)
    \/ \E i \in Tasks : Exit(i)
    \/ WaitReturn
    \/ GeminiEvaluateJSON

\* ============================================================ disk cache
MaxTime == 2
MaxTtl == 2

\* 1*time.Hour and 24*30*time.Hour, in hours
ReposTtl == 1
CommitTtl == 720

Quote == Tok("\"", 0)
B64(b) == Tok("b", b)

\* getCachePath(elem...): the path elements under <user cache dir>/ghp
getCachePath(elem) == <<"ghp">> \o elem

ReposKey(handle) == getCachePath(<<"repos-", handle, ".json">>)

\* what one cache file holds: a JSON array (a repository list, a tree) or a
\* JSON string (a []byte, base64)
KindOf(path) == IF path[Len(path)] = ".cache" THEN "bytes" ELSE "list"

\* json.Marshal of a cached value
jsonMarshal(kind, v) ==
    IF kind = "bytes"
    THEN <<Quote>> \o [i \in 1..Len(v) |-> B64(v[i])] \o <<Quote>>
    ELSE LET n == Len(v)
         IN  <<LBrack>>
             \o [i \in 1..(IF n = 0 THEN 0 ELSE 4 * n - 1) |->
                    IF i % 4 = 0 THEN Comma
                    ELSE IF i % 4 = 1 THEN LBrace
                    ELSE IF i % 4 = 2 THEN Payload(v[(i + 2) \div 4])
                    ELSE RBrace]
             \o <<RBrack>>

IsB64String(t) ==
    /\ Len(t) >= 2
    /\ t[1] = Quote
    /\ t[Len(t)] = Quote
    /\ \A i \in 2..(Len(t) - 1) : t[i].s = "b"

\* json.Unmarshal of a cache file into the target of its kind
jsonUnmarshal(kind, t) ==
    IF kind = "bytes"
    THEN IF IsB64String(t)
         THEN [ok |-> TRUE, val |-> [i \in 1..(Len(t) - 2) |-> t[i + 1].n]]
         ELSE [ok |-> FALSE, val |-> <<>>]
    ELSE IF IsArr(t)
         THEN [ok |-> TRUE, val |-> ArrVals(t)]
         ELSE [ok |-> FALSE, val |-> <<>>]

NoFile == [exists |-> FALSE, content |-> <<>>, mtime |-> 0]

\* a comparison that also treats an entry of exactly ttl as expired
Expired_AtTtl(age, ttl) == age >= ttl

\* time.Since(stat.ModTime()) > ttl
Expired(age, ttl) == age > ttl

\* readCache(path, target, ttl) over the files fs at time t, where io tells
\* which system call meets an I/O error ("stat", "read") or none ("ok"): what
\* it returns, and the target afterwards.
readCache(fs, path, target, ttl, t, io) ==
    LET f == fs[path]
        u == jsonUnmarshal(KindOf(path), f.content)
    IN  IF io # "stat" /\ ~f.exists
        THEN [hit |-> FALSE, err |-> NoErr, target |-> target]
        ELSE IF io = "stat"
        THEN [hit |-> FALSE, err |-> Err(0, "stat"), target |-> target]
        ELSE IF Expired(t - f.mtime, ttl)
        THEN [hit |-> FALSE, err |-> NoErr, target |-> target]
        ELSE IF io = "read"
        THEN [hit |-> FALSE, err |-> Err(0, "read"), target |-> target]
        ELSE IF ~u.ok
        THEN [hit |-> FALSE, err |-> Err(0, "unmarshal"), target |-> target]
        ELSE [hit |-> TRUE, err |-> NoErr, target |-> u.val]

\* a write that does not truncate the file it opens
WriteFile_NoTrunc(old, data) ==
    data \o SubSeq(old, Len(data) + 1, Len(old))

\* os.WriteFile: the file is opened with O_TRUNC and holds the data alone
WriteFile(old, data) == data

\* writeCache(path, data) at time t, where io tells which step fails: "mkdir"
\* (MkdirAll), "open" (the open of WriteFile), "write" (the write after the
\* file was truncated, n tokens written) or none ("ok"): the files afterwards
\* and the error.
writeCache(fs, path, data, t, io, n) ==
    LET b == jsonMarshal(KindOf(path), data)
        old == IF fs[path].exists THEN fs[path].content ELSE <<>>
    IN  IF io = "mkdir" \/ io = "open"
        THEN [fs |-> fs, err |-> Err(0, io)]
        ELSE IF io = "write"
        THEN [fs |-> [fs EXCEPT ![path] =
                        [exists |-> TRUE, content |-> SubSeq(b, 1, n), mtime |-> t]],
              err |-> Err(0, io)]
        ELSE [fs |-> [fs EXCEPT ![path] =
                        [exists |-> TRUE, content |-> WriteFile(old, b), mtime |-> t]],
              err |-> NoErr]

\* the number of tokens a failed write may leave behind: none, or all but
\* the last
PartialLens(kind, data) == {0, Len(jsonMarshal(kind, data)) - 1}

\* the record of the last writeCache call on a path: whether it succeeded
\* and, if so, its value, its time and whether it replaced a file holding
\* something else (f is the file before the call)
WriteRecord(w, data, t, f) ==
    IF w.err = NoErr
    THEN [ok |-> TRUE, val |-> data, at |-> t,
          over |-> f.exists /\ f.content # jsonMarshal("list", data)
                            /\ f.content # jsonMarshal("bytes", data)]
    ELSE [ok |-> FALSE, val |-> <<>>, at |-> 0, over |-> FALSE]

NoWrite == [ok |-> FALSE, val |-> <<>>, at |-> 0, over |-> FALSE]
NoEv == [op |-> "none"]

\* ----------------------------------------------- the cached GitHub calls
Handles == {"u"}
Owner == "o"
Repo == "r"
Shas == {"s1"}
FilePaths == {<<"a", "/", "b">>, <<"a", "_", "b">>}

\* strings.ReplaceAll(path, "/", "_")
SafePath(path) == [i \in 1..Len(path) |-> IF path[i] = "/" THEN "_" ELSE path[i]]

TreeKey(owner, repo, sha) == getCachePath(<<owner, repo, sha, "-tree.json">>)
FileKey(owner, repo, sha, path) ==
    getCachePath(<<owner, repo, sha>> \o SafePath(path) \o <<".cache">>)

AllPaths ==
    {ReposKey(h) : h \in Handles}
    \cup {TreeKey(Owner, Repo, sha) : sha \in Shas}
    \cup {FileKey(Owner, Repo, sha, p) : sha \in Shas, p \in FilePaths}

\* the values the program caches: repository lists and trees, file contents
ValuesOf(kind) == IF kind = "bytes" THEN {<<>>, <<7>>} ELSE {<<>>, <<1>>}

\* what a caller's target holds before the read
Targets == {<<>>, <<9>>}

\* the provider is not asked
NoQuery == [pinned |-> <<>>, owned |-> <<>>]

CacheInit ==
    /\ homeSet = TRUE
    /\ query = NoQuery
    /\ files = [p \in AllPaths |-> NoFile]
    /\ now = 0
    /\ ev = NoEv
    /\ lastWrite = [p \in AllPaths |-> NoWrite]

\* the paths the cache primitives are exercised on
CachePaths ==
    {ReposKey("u")} \cup {FileKey(Owner, Repo, "s1", <<"a", "/", "b">>)}

\* the caller has taken the result of its last call
Idle == ev = NoEv

\* the caller takes the result of the call
TakeResult ==
    /\ ev # NoEv
    /\ ev' = NoEv
    /\ UNCHANGED <<homeSet, files, now, query, lastWrite>>
    /\ UNCHANGED <<evalVars, submitVars, fnVars>>

Tick ==
    /\ Idle
    /\ now < MaxTime
    /\ now' = now + 1
    /\ ev' = NoEv
    /\ UNCHANGED <<homeSet, files, query, lastWrite>>
    /\ UNCHANGED <<evalVars, submitVars, fnVars>>

WriteCacheCall ==
    /\ Idle
    /\ \E path \in CachePaths :
       \E data \in ValuesOf(KindOf(path)) :
       \E io \in {"ok", "mkdir", "open", "write"} :
       \E n \in PartialLens(KindOf(path), data) :
         LET w == writeCache(files, path, data, now, io, n)
         IN  /\ files' = w.fs
             /\ lastWrite' = [lastWrite EXCEPT
                                ![path] = WriteRecord(w, data, now, files[path])]
    /\ ev' = NoEv
    /\ UNCHANGED <<homeSet, now, query>>
    /\ UNCHANGED <<evalVars, submitVars, fnVars>>

ReadCacheCall ==
    /\ Idle
    /\ \E path \in CachePaths :
       \E ttl \in 0..MaxTtl :
       \E io \in {"ok", "stat", "read"} :
       \E target \in Targets :
         LET r == readCache(files, path, target, ttl, now, io)
         IN  ev' = [op |-> "read", path |-> path, ttl |-> ttl, io |-> io,
                    target0 |-> target, hit |-> r.hit, err |-> r.err,
                    target |-> r.target]
    /\ UNCHANGED <<homeSet, files, now, query, lastWrite>>
    /\ UNCHANGED <<evalVars, submitVars, fnVars>>

CacheNext ==
    \/ Tick
    \/ WriteCacheCall
    \/ ReadCacheCall
    \/ TakeResult

\* ------------------------------------- DiscoverUserRepos: the live merge
MaxPinned == 2
MaxOwned == 3
MaxLimit == 2

\* the repositories of the provider, by NameWithOwner; a node with an empty
\* NameWithOwner is NoName
NoName == 0
RepoNames == 1..4
StargazerCount == <<5, 1, 50, 5>>
IsFork == <<FALSE, FALSE, FALSE, TRUE>>

\* the sequences of at most n distinct elements of S
DistinctSeqs(S, n) ==
    UNION { { q \in [1..k -> S] : \A a, b \in 1..k : a # b => q[a] # q[b] } :
            k \in 0..n }

\* the answers of the provider: pinnedItems and repositories, no node twice
\* in either list
Queries ==
    { [pinned |-> p, owned |-> o] :
        p \in DistinctSeqs(RepoNames \cup {NoName}, MaxPinned),
        o \in DistinctSeqs(RepoNames \cup {NoName}, MaxOwned) }

\* discoverOptions
Options ==
    [Limit : 0..MaxLimit, IncludePinned : BOOLEAN, IncludeNonPinned : BOOLEAN,
     ExcludeForks : BOOLEAN]

\* pinned A(5), B(1); owned B(1), C(50)
ScenarioQuery == [pinned |-> <<1, 2>>, owned |-> <<2, 3>>]

SeqRange(q) == {q[i] : i \in 1..Len(q)}

\* the two `continue` tests of both loops that look at the node alone
KeepNode(r, opt) ==
    /\ r # NoName
    /\ ~(opt.ExcludeForks /\ IsFork[r])

\* pinnedOrder after the first loop
pinnedOrder(q, opt) ==
    IF opt.IncludePinned
    THEN SelectSeq(q.pinned, LAMBDA r : KeepNode(r, opt))
    ELSE <<>>

\* the keys of repoMap after both loops
repoMap(q, opt) ==
    SeqRange(pinnedOrder(q, opt))
    \cup IF opt.IncludeNonPinned
         THEN {r \in SeqRange(q.owned) :
                 r \notin SeqRange(pinnedOrder(q, opt)) /\ KeepNode(r, opt)}
         ELSE {}

\* a comparator that sorts by ascending stars
StarsBefore_Ascending(a, b) == StargazerCount[a] <= StargazerCount[b]

\* a may stand before b after slices.SortFunc with b.Stars - a.Stars
StarsBefore(a, b) == StargazerCount[a] >= StargazerCount[b]

\* the orders `remaining` may have after the sort: the map is ranged over in
\* any order and the sort is not stable, so equal stars come in any order
SortedRemaining(S) ==
    { q \in DistinctSeqs(S, Cardinality(S)) :
        /\ Len(q) = Cardinality(S)
        /\ \A a, b \in 1..Len(q) : a < b => StarsBefore(q[a], q[b]) }

\* targets = targets[:opt.Limit]
Truncate(targets, limit) ==
    IF limit > 0 /\ Len(targets) > limit
    THEN SubSeq(targets, 1, limit)
    ELSE targets

\* the lists the live part of DiscoverUserRepos may build from the answer q
discover(q, opt) ==
    { Truncate(pinnedOrder(q, opt) \o remaining, opt.Limit) :
        remaining \in SortedRemaining(repoMap(q, opt)
                                      \ SeqRange(pinnedOrder(q, opt))) }

\* the live part of DiscoverUserRepos alone: the query succeeds and the list
\* is built
DiscoverLive ==
    /\ Idle
    /\ \E opt \in Options : \E targets \in discover(query, opt) :
         ev' = [op |-> "live", opt |-> opt, ret |-> targets]
    /\ UNCHANGED <<homeSet, files, now, query, lastWrite>>
    /\ UNCHANGED <<evalVars, submitVars, fnVars>>

DiscoverLiveInit ==
    /\ homeSet = TRUE
    /\ files = [p \in AllPaths |-> NoFile]
    /\ now = 0
    /\ ev = NoEv
    /\ query \in Queries
    /\ lastWrite = [p \in AllPaths |-> NoWrite]

DiscoverLiveNext ==
    \/ DiscoverLive
    \/ TakeResult

\* ---------------------------------------------- ghRepoImpl's cached calls
GhOps == {"DiscoverUserRepos", "ListTree", "ReadFile"}

\* what a call returned: the cache path and whether it could be derived, the
\* cache read (the failing system call, hit, error), the live fetch ("none"
\* when none was made), the cache write's error, and the (value, error) pair
GhEv(op, path, pathErr, io, r, live, werr, ret, err) ==
    [op |-> op, path |-> path, pathErr |-> pathErr, io |-> io,
     hit |-> r.hit, rerr |-> r.err, live |-> live, werr |-> werr,
     ret |-> ret, err |-> err]

NoRead == [hit |-> FALSE, err |-> NoErr, target |-> <<>>]

\* the blob paths GetTree may answer with
LiveTrees == {<<1>>}
\* the content GetContents answers with for a path: the blob of the commit
ContentOf(path) == IF path = <<"a", "/", "b">> THEN <<7>> ELSE <<8>>

\* a call that never serves the cached list
CacheHit_Never(r) == FALSE

\* if hit { return cachedRepos, nil }
CacheHit(r) == r.hit

\* opt is recorded with what the call returned
DiscoverUserRepos ==
    /\ Idle
    /\ \E handle \in Handles : \E opt \in Options :
       LET cachePath == ReposKey(handle)
           Ev(pathErr, io, r, live, werr, ret, err) ==
               ("opt" :> opt) @@ GhEv("DiscoverUserRepos", cachePath, pathErr,
                                      io, r, live, werr, ret, err)
       IN  \/ /\ ~homeSet
              /\ ev' = Ev(TRUE, "ok", NoRead, "none", NoErr, <<>>,
                          Err(0, "cache path"))
              /\ UNCHANGED files
           \/ /\ homeSet
              /\ \E io \in {"ok", "stat", "read"} :
                 LET r == readCache(files, cachePath, <<>>, ReposTtl, now, io)
                 IN  \/ /\ CacheHit(r)
                        /\ ev' = Ev(FALSE, io, r, "none", NoErr, r.target, NoErr)
                        /\ UNCHANGED files
                     \/ /\ ~CacheHit(r)
                        /\ ev' = Ev(FALSE, io, r, "fail", NoErr, <<>>,
                                    Err(0, "graphql query"))
                        /\ UNCHANGED files
                     \/ /\ ~CacheHit(r)
                        /\ \E targets \in discover(query, opt) :
                           \E wio \in {"ok", "mkdir", "open", "write"} :
                           \E n \in PartialLens("list", targets) :
                             LET w == writeCache(files, cachePath, targets,
                                                 now, wio, n)
                             IN  /\ files' = w.fs
                                 /\ ev' = Ev(FALSE, io, r, "ok", w.err,
                                             targets, NoErr)
    /\ UNCHANGED <<homeSet, now, query, lastWrite>>
    /\ UNCHANGED <<evalVars, submitVars, fnVars>>

ListTree ==
    /\ Idle
    /\ \E sha \in Shas :
       LET cachePath == TreeKey(Owner, Repo, sha)
       IN  \/ /\ ~homeSet
              /\ ev' = GhEv("ListTree", cachePath, TRUE, "ok", NoRead,
                            "none", NoErr, <<>>, Err(0, "cache path"))
              /\ UNCHANGED files
           \/ /\ homeSet
              /\ \E io \in {"ok", "stat", "read"} :
                 LET r == readCache(files, cachePath, <<>>, CommitTtl, now, io)
                 IN  \/ /\ r.hit
                        /\ ev' = GhEv("ListTree", cachePath, FALSE, io,
                                      r, "none", NoErr, r.target, NoErr)
                        /\ UNCHANGED files
                     \/ /\ ~r.hit
                        /\ ev' = GhEv("ListTree", cachePath, FALSE, io,
                                      r, "fail", NoErr, <<>>,
                                      Err(0, "get tree"))
                        /\ UNCHANGED files
                     \/ /\ ~r.hit
                        /\ \E paths \in LiveTrees :
                           \E wio \in {"ok", "mkdir", "open", "write"} :
                           \E n \in PartialLens("list", paths) :
                             LET w == writeCache(files, cachePath, paths,
                                                 now, wio, n)
                             IN  /\ files' = w.fs
                                 /\ ev' = GhEv("ListTree", cachePath,
                                               FALSE, io, r, "ok", w.err,
                                               paths, NoErr)
    /\ UNCHANGED <<homeSet, now, query, lastWrite>>
    /\ UNCHANGED <<evalVars, submitVars, fnVars>>

ReadFile ==
    /\ Idle
    /\ \E sha \in Shas : \E path \in FilePaths :
       LET cachePath == FileKey(Owner, Repo, sha, path)
           Ev(pathErr, io, r, live, werr, ret, err) ==
               ("arg" :> path)
               @@ GhEv("ReadFile", cachePath, pathErr, io, r, live, werr, ret, err)
       IN  \/ /\ ~homeSet
              /\ ev' = Ev(TRUE, "ok", NoRead, "none", NoErr, <<>>,
                          Err(0, "cache path"))
              /\ UNCHANGED files
           \/ /\ homeSet
              /\ \E io \in {"ok", "stat", "read"} :
                 LET r == readCache(files, cachePath, <<>>, CommitTtl, now, io)
                 IN  \/ /\ r.hit
                        /\ ev' = Ev(FALSE, io, r, "none", NoErr, r.target, NoErr)
                        /\ UNCHANGED files
                     \/ /\ ~r.hit
                        /\ \E live \in {"fail", "content"} :
                             ev' = Ev(FALSE, io, r, live, NoErr, <<>>,
                                      Err(0, "get contents"))
                        /\ UNCHANGED files
                     \/ /\ ~r.hit
                        /\ ev' = Ev(FALSE, io, r, "nil", NoErr, <<>>, NoErr)
                        /\ UNCHANGED files
                     \/ /\ ~r.hit
                        /\ \E wio \in {"ok", "mkdir", "open", "write"} :
                           \E n \in PartialLens("bytes", ContentOf(path)) :
                             LET w == writeCache(files, cachePath,
                                                 ContentOf(path), now, wio, n)
                             IN  /\ files' = w.fs
                                 /\ ev' = Ev(FALSE, io, r, "ok", w.err,
                                             ContentOf(path), NoErr)
    /\ UNCHANGED <<homeSet, now, query, lastWrite>>
    /\ UNCHANGED <<evalVars, submitVars, fnVars>>

\* ReadFile called again and again as time passes
ReadFileNext ==
    \/ Tick
    \/ ReadFile
    \/ TakeResult

\* os.UserCacheDir succeeds or not for the whole run, as the environment has it
\* the provider answers with one pinned repository
GhQuery == [pinned |-> <<1>>, owned |-> <<>>]

GhInit ==
    /\ homeSet \in BOOLEAN
    /\ query = GhQuery
    /\ files = [p \in AllPaths |-> NoFile]
    /\ now = 0
    /\ ev = NoEv
    /\ lastWrite = [p \in AllPaths |-> NoWrite]

GhNext ==
    \/ Tick
    \/ DiscoverUserRepos
    \/ ListTree
    \/ ReadFile
    \/ TakeResult

\* repeated discoveries of one handle, the provider answering as in the
\* scenario
DiscoverInit ==
    /\ homeSet = TRUE
    /\ files = [p \in AllPaths |-> NoFile]
    /\ now = 0
    /\ ev = NoEv
    /\ query = ScenarioQuery
    /\ lastWrite = [p \in AllPaths |-> NoWrite]

DiscoverNext ==
    \/ Tick
    \/ DiscoverUserRepos
    \/ TakeResult

\* ---------------------------------------------------- service.Submit
MaxRepos == 2
MaxSample == 2

\* the length of a commit SHA, and of the prefix evaluateRepo prints
ShaLen == 40
ShaPrefix == 7

\* the scores a repository with at least one scored chunk may get
PosScores == {50}

RepoTarget(i) == [Name |-> i]

\* a RepoResult: the repository, the score, whether the architecture fields
\* are filled, the file and chunk counts; `failed` records the step of
\* evaluateRepo that failed, "" when none did
RepoResult(repo, score, arch, nfiles, nchunks, failed) ==
    [Repo |-> repo, Score |-> score, Arch |-> arch, Files |-> nfiles,
     Chunks |-> nchunks, failed |-> failed]

\* RepoResult{Repo: repo}
EmptyResult(repo, failed) == RepoResult(repo, 0, FALSE, 0, 0, failed)

\* an element of make([]RepoResult, n)
ZeroResult == EmptyResult(RepoTarget(0), "")

NoReport == [err |-> "nil", html |-> FALSE]

SubmitIdle ==
    /\ submitPc = "idle"
    /\ repos = <<>>
    /\ results = <<>>
    /\ submitSem = 0
    /\ submitWg = 0
    /\ repoTask = <<>>
    /\ report = NoReport

SubmitInit ==
    /\ submitPc = "start"
    /\ repos = <<>>
    /\ results = <<>>
    /\ submitSem = 0
    /\ submitWg = 0
    /\ repoTask = <<>>
    /\ report = NoReport

\* Submit up to the fan-out: the discovery, and the two early returns
SubmitDiscover ==
    /\ submitPc = "start"
    /\ \/ /\ submitPc' = "aborted"
          /\ report' = [err |-> "discover", html |-> FALSE]
          /\ UNCHANGED <<repos, results, repoTask>>
       \/ /\ repos' = <<>>
          /\ submitPc' = "aborted"
          /\ report' = [err |-> "no repositories", html |-> FALSE]
          /\ UNCHANGED <<results, repoTask>>
       \/ \E n \in 1..MaxRepos :
            /\ repos' = [i \in 1..n |-> RepoTarget(i)]
            /\ results' = [i \in 1..n |-> ZeroResult]
            /\ repoTask' = [i \in 1..n |-> "new"]
            /\ submitPc' = "spawn"
            /\ UNCHANGED report
    /\ UNCHANGED <<submitSem, submitWg>>
    /\ UNCHANGED <<evalVars, cacheVars, fnVars>>

\* the repositories no goroutine was started for yet
Unspawned == {i \in 1..Len(repos) : repoTask[i] = "new"}

\* one turn of the loop: wg.Add(1); go func() {...}()
Spawn ==
    /\ submitPc = "spawn"
    /\ Unspawned # {}
    /\ LET i == CHOOSE j \in Unspawned : \A k \in Unspawned : j <= k
       IN  repoTask' = [repoTask EXCEPT ![i] = "acquire"]
    /\ submitWg' = submitWg + 1
    /\ UNCHANGED <<submitPc, repos, results, submitSem, report>>
    /\ UNCHANGED <<evalVars, cacheVars, fnVars>>

SpawnDone ==
    /\ submitPc = "spawn"
    /\ Unspawned = {}
    /\ submitPc' = "wait"
    /\ UNCHANGED <<repos, results, submitSem, submitWg, repoTask, report>>
    /\ UNCHANGED <<evalVars, cacheVars, fnVars>>

\* the process is alive: no goroutine has panicked
Alive == submitPc \in {"spawn", "wait"}

\* sem <- struct{}{}
Acquire(i) ==
    /\ Alive
    /\ repoTask[i] = "acquire"
    /\ submitSem < para
    /\ submitSem' = submitSem + 1
    /\ repoTask' = [repoTask EXCEPT ![i] = "eval"]
    /\ UNCHANGED <<submitPc, repos, results, submitWg, report>>
    /\ UNCHANGED <<evalVars, cacheVars, fnVars>>

\* sha[:ShaPrefix] is evaluated without a panic
CanSlice(n) == n >= ShaPrefix

\* the (err, final) pairs the scoring call and the aggregation can give for
\* nc chunks: scored is the number of chunks left with a positive total, and
\* with an error at least one chunk has none
ScoreOutcomes(nc) ==
    { o \in [err : BOOLEAN, final : {0} \cup PosScores] :
        \E scored \in 0..nc :
          /\ o.err => scored < nc
          /\ o.final = 0 <=> scored = 0 }

\* what evaluateRepo can return once the tree is being listed: the empty
\* result when ListTree fails or no chunk is sampled; otherwise the result
\* built from the architecture call (arch: it succeeded), the np picked paths,
\* the nc sampled chunks and the scoring call, whose error is only logged
RepoOutcomes(repo) ==
    {EmptyResult(repo, "tree"), EmptyResult(repo, "no chunks")}
    \cup UNION { { RepoResult(repo, o.final, arch, np, nc,
                              IF o.err THEN "llm" ELSE "") :
                     arch \in BOOLEAN, o \in ScoreOutcomes(nc) } :
                 np \in 1..MaxSample, nc \in 1..MaxSample }

\* the goroutine once it holds a token: res, _ := s.evaluateRepo(ctx, repos[i]),
\* results[i] = res, then the deferred <-sem and wg.Done(). In evaluateRepo,
\* GetLatestCommitSHA's failure is only logged and leaves sha empty, and the
\* Printf of sha[:7] panics when sha is shorter.
EvaluateRepo(i) ==
    /\ Alive
    /\ repoTask[i] = "eval"
    /\ \E n \in {0, ShaLen} :
         IF CanSlice(n)
         THEN /\ \E res \in {r \in RepoOutcomes(repos[i]) : r.Chunks <= r.Files} :
                   results' = [results EXCEPT ![i] = res]
              /\ submitSem' = submitSem - 1
              /\ submitWg' = submitWg - 1
              /\ repoTask' = [repoTask EXCEPT ![i] = "done"]
              /\ UNCHANGED submitPc
         ELSE /\ submitPc' = "crashed"
              /\ UNCHANGED <<results, submitSem, submitWg, repoTask>>
    /\ UNCHANGED <<repos, report>>
    /\ UNCHANGED <<evalVars, cacheVars, fnVars>>

\* results left as the goroutines stored them
SortedByScore_AsStored(rs) == {rs}

\* the orders slices.SortFunc may leave: descending by Score, equal scores in
\* any order (the sort is not stable)
SortedByScore(rs) ==
    { [i \in 1..Len(rs) |-> rs[p[i]]] :
        p \in { q \in [1..Len(rs) -> 1..Len(rs)] :
                  /\ \A a, b \in 1..Len(rs) : a # b => q[a] # q[b]
                  /\ \A a, b \in 1..Len(rs) :
                       a < b => rs[q[a]].Score >= rs[q[b]].Score } }

\* wg.Wait() returns; the sort, the headline and the summary, whose failures
\* only change the text, and renderHTML
SubmitReport ==
    /\ submitPc = "wait"
    /\ submitWg = 0
    /\ results' \in SortedByScore(results)
    /\ report' = [err |-> "nil", html |-> TRUE]
    /\ submitPc' = "returned"
    /\ UNCHANGED <<repos, submitSem, submitWg, repoTask>>
    /\ UNCHANGED <<evalVars, cacheVars, fnVars>>

SubmitNext ==
    \/ SubmitDiscover
    \/ Spawn
    \/ SpawnDone
    \/ \E i \in 1..Len(repos) : Acquire(i)
    \/ \E i \in 1..Len(repos) : EvaluateRepo(i)
    \/ SubmitReport

\* --------------------------------------------------- scorePath, pickPaths
MaxDepth == 2
MaxTree == 4
MaxN == 2

\* A path is a sequence of pieces: directory and file names or parts of them,
\* "/" and dotted parts such as ".go". The pieces that begin with a dot:
DotPieces ==
    {".git", ".go", ".py", ".ts", ".js", ".java", ".rs", ".swift", ".kt",
     ".kts", ".rb", ".ex", ".exs", ".cs", ".cpp", ".c", ".h", ".hpp", ".sh",
     ".sql", ".yml", ".yaml", ".json", ".toml", ".hcl", ".tf", ".md", ".txt",
     ".html", ".css", ".png", ".jpg", ".zip", ".pdf", ".svg", ".lock", ".sum",
     ".test", ".spec"}

\* strings.ToLower, piece by piece
LowerPiece(t) ==
    CASE t = "README" -> "readme"
      [] t = "Dockerfile" -> "dockerfile"
      [] t = "Vendor" -> "vendor"
      [] OTHER -> t

ToLower(p) == [i \in 1..Len(p) |-> LowerPiece(p[i])]

\* strings.Contains, strings.HasPrefix, strings.HasSuffix for a text made of
\* whole pieces
Contains(l, sub) ==
    \E i \in 1..(Len(l) - Len(sub) + 1) : SubSeq(l, i, i + Len(sub) - 1) = sub

HasPrefix(l, pre) == Len(l) >= Len(pre) /\ SubSeq(l, 1, Len(pre)) = pre

HasSuffix(l, suf) ==
    Len(l) >= Len(suf) /\ SubSeq(l, Len(l) - Len(suf) + 1, Len(l)) = suf

\* strings.Contains(l, ".test.") and the like: the piece, then a dot
ContainsDotted(l, piece) ==
    \E i \in 1..(Len(l) - 1) : l[i] = piece /\ l[i + 1] \in DotPieces

\* filepath.Ext: from the last dot of the last element to the end
Ext(l) ==
    LET lastSep == IF \E i \in 1..Len(l) : l[i] = "/"
                   THEN CHOOSE i \in 1..Len(l) :
                          l[i] = "/" /\ \A j \in (i + 1)..Len(l) : l[j] # "/"
                   ELSE 0
        dots == {i \in (lastSep + 1)..Len(l) : l[i] \in DotPieces}
    IN  IF dots = {} THEN <<>>
        ELSE SubSeq(l, CHOOSE i \in dots : \A j \in dots : j <= i, Len(l))

\* the bonus of the switch on ext
ExtBonus(ext) ==
    IF ext \in {<<".go">>, <<".py">>, <<".ts">>, <<".js">>, <<".java">>,
                <<".rs">>, <<".swift">>, <<".kt">>, <<".kts">>, <<".rb">>,
                <<".ex">>, <<".exs">>, <<".cs">>, <<".cpp">>, <<".c">>,
                <<".h">>, <<".hpp">>} THEN 50
    ELSE IF ext \in {<<".sh">>, <<".sql">>} THEN 20
    ELSE IF ext \in {<<".yml">>, <<".yaml">>, <<".json">>, <<".toml">>,
                     <<".hcl">>, <<"dockerfile">>, <<".tf">>} THEN 5
    ELSE IF ext \in {<<".md">>, <<".txt">>, <<".html">>, <<".css">>} THEN 2
    ELSE 0

scorePath(p) ==
    LET l == ToLower(p)
        dirBonus ==
            (IF \/ HasPrefix(l, <<"internal", "/">>)
                \/ HasPrefix(l, <<"pkg", "/">>)
                \/ HasPrefix(l, <<"src", "/">>)
                \/ HasPrefix(l, <<"lib", "/">>) THEN 20 ELSE 0)
            + (IF HasPrefix(l, <<"cmd", "/">>) THEN 15 ELSE 0)
        testPenalty ==
            IF \/ HasSuffix(l, <<"_test", ".go">>)
               \/ ContainsDotted(l, ".test")
               \/ ContainsDotted(l, ".spec") THEN 5 ELSE 0
    IN  IF \/ Contains(l, <<"/", "vendor", "/">>)
           \/ Contains(l, <<"/", "node_modules", "/">>)
           \/ Contains(l, <<"/", ".git", "/">>)
           \/ Contains(l, <<"/", "build", "/">>)
           \/ Contains(l, <<"/", "dist", "/">>)
        THEN 0
        ELSE IF \/ HasPrefix(l, <<"gen", "/">>)
                \/ HasPrefix(l, <<"docs", "/">>)
                \/ Contains(l, <<"example">>)
        THEN 1
        ELSE IF \/ HasSuffix(l, <<".png">>)
                \/ HasSuffix(l, <<".jpg">>)
                \/ HasSuffix(l, <<".zip">>)
                \/ HasSuffix(l, <<".pdf">>)
                \/ HasSuffix(l, <<".svg">>)
        THEN 0
        ELSE IF HasSuffix(l, <<".lock">>) \/ HasSuffix(l, <<"go", ".sum">>)
        THEN 1
        ELSE 10 + dirBonus + ExtBonus(Ext(l)) - testPenalty

\* the directory names, the file name stems and the endings paths are made of
DirNames ==
    {"vendor", "Vendor", "node_modules", ".git", "build", "dist", "gen",
     "docs", "internal", "pkg", "src", "lib", "cmd", "img"}

Stems ==
    {<<"x">>, <<"example">>, <<"README">>, <<"go">>, <<"Dockerfile">>,
     <<"x", "_test">>, <<"x", ".test">>, <<"x", ".spec">>}

Endings ==
    {<<>>, <<".go">>, <<".png">>, <<".sh">>, <<".yaml">>, <<".md">>,
     <<".lock">>, <<".sum">>}

\* dirs[1]/dirs[2]/.../file
JoinPath(dirs, file) ==
    [i \in 1..(2 * Len(dirs)) |->
        IF i % 2 = 1 THEN dirs[(i + 1) \div 2] ELSE "/"] \o file

Paths ==
    { JoinPath(d, st \o e) :
        d \in UNION {[1..k -> DirNames] : k \in 0..MaxDepth},
        st \in Stems, e \in Endings }

NoArg == [fn |-> "none"]
NoRet == [done |-> FALSE, val |-> 0]

FnIdle ==
    /\ fnArg = NoArg
    /\ fnRet = NoRet

ScorePathInit ==
    /\ \E p \in Paths : fnArg = [fn |-> "scorePath", p |-> p]
    /\ fnRet = NoRet

ScorePath ==
    /\ fnArg.fn = "scorePath"
    /\ ~fnRet.done
    /\ fnRet' = [done |-> TRUE, val |-> scorePath(fnArg.p)]
    /\ UNCHANGED fnArg
    /\ UNCHANGED <<evalVars, cacheVars, submitVars>>

\* the paths of the trees pickPaths is given
VendorXGo == <<"vendor", "/", "x", ".go">>
InternalServiceGo == <<"internal", "/", "service", ".go">>
ReadmeMd == <<"README", ".md">>
GoSum == <<"go", ".sum">>
TreePaths ==
    {VendorXGo, InternalServiceGo, ReadmeMd, GoSum, <<"x", ".png">>,
     <<"x", ".go">>}

\* the orders slices.SortFunc may leave the scored paths in: descending by
\* score, equal scores in any order (the sort is not stable)
SortedPaths(entries) ==
    LET scored == SelectSeq(entries, LAMBDA q : scorePath(q) > 0)
    IN  { [i \in 1..Len(scored) |-> scored[f[i]]] :
            f \in { g \in [1..Len(scored) -> 1..Len(scored)] :
                      /\ \A a, b \in 1..Len(scored) : a # b => g[a] # g[b]
                      /\ \A a, b \in 1..Len(scored) :
                           a < b => scorePath(scored[g[a]])
                                      >= scorePath(scored[g[b]]) } }

\* the length of out when the loop ends: a path is appended, then the loop
\* breaks once len(out) >= n
TakeLen(m, n) ==
    IF m = 0 THEN 0
    ELSE IF n <= 1 THEN 1
    ELSE IF m < n THEN m ELSE n

pickPaths(entries, n) ==
    { SubSeq(sp, 1, TakeLen(Len(sp), n)) : sp \in SortedPaths(entries) }

PickPathsInit ==
    /\ \E entries \in DistinctSeqs(TreePaths, MaxTree) : \E n \in 0..MaxN :
         fnArg = [fn |-> "pickPaths", entries |-> entries, n |-> n]
    /\ fnRet = NoRet

PickPaths ==
    /\ fnArg.fn = "pickPaths"
    /\ ~fnRet.done
    /\ \E out_ \in pickPaths(fnArg.entries, fnArg.n) :
         fnRet' = [done |-> TRUE, val |-> out_]
    /\ UNCHANGED fnArg
    /\ UNCHANGED <<evalVars, cacheVars, submitVars>>

\* ------------------------------------------- evaluateRepo: the aggregation
\* The part of evaluateRepo after the chunks are sampled: the call of
\* openAIClient.EvaluateJSON, one evalOne per chunk, and the loop that turns
\* the chunk scores into the repository's score, strengths, risks and samples.
MaxScored == 2

\* a ChunkScore whose six sub-scores are all v
Uniform(v, notes, citations) ==
    [Readability |-> v, Design |-> v, Testing |-> v, Maintain |-> v,
     Idiomatic |-> v, Security |-> v, Notes |-> notes, Citations |-> citations]

\* the zero value reflect.MakeSlice leaves at every index
ZeroChunkScore == Uniform(0, <<>>, 0)

\* what evalOne may have decoded into resPtr
Responses ==
    {Uniform(0, <<"idiomatic">>, 1),
     Uniform(3, <<"idiomatic", "tested">>, 1),
     Uniform(4, <<"globals", "fine">>, 0),
     Uniform(6, <<"security">>, 1),
     [Uniform(0, <<>>, 1) EXCEPT !.Readability = -1]}

\* evalOne of one chunk: its error and the value behind resPtr
Calls == [err : BOOLEAN, res : Responses]

\* the paths of the sampled chunks
ChunkPaths ==
    {<<"x", ".go">>, <<"x", "_test", ".go">>, <<"cmd", "/", "x", ".go">>}

\* outSlice.Index(i) after the goroutine of chunk i: set only when err == nil
StoredScore_Always(call) == call.res

StoredScore(call) == IF call.err THEN ZeroChunkScore ELSE call.res

\* scores after EvaluateJSON: one element per chunk
openAIScores(calls) == [i \in 1..Len(calls) |-> StoredScore(calls[i])]

Total(sc) ==
    sc.Readability + sc.Design + sc.Testing + sc.Maintain + sc.Idiomatic
    + sc.Security

\* if total == 0 { continue }
Counted_Always(total) == TRUE

Counted(total) == total # 0

\* strings.Contains(p, "test") for a path made of pieces
ContainsTest(l) == \E i \in 1..Len(l) : l[i] \in {"test", "_test", ".test"}

\* w in tenths: 1.0, plus 0.1 for a test path, plus 0.2 under cmd/ or
\* /internal/
Weight10(p) ==
    LET l == ToLower(p)
    IN  10 + (IF ContainsTest(l) THEN 1 ELSE 0)
           + (IF \/ HasPrefix(l, <<"cmd", "/">>)
                 \/ Contains(l, <<"/", "internal", "/">>) THEN 2 ELSE 0)

first(notes) == IF Len(notes) > 0 THEN notes[1] ELSE ""

IsStrength(n) == n \in {"well-structured", "idiomatic", "tested"}

IsRisk(n) ==
    n \in {"missing tests", "long function", "globals", "security",
           "concurrency"}

\* the loop over sc.Notes: the first j notes sorted into strengths and risks
RECURSIVE AddNotes(_, _, _)
AddNotes(acc, notes, j) ==
    IF j = 0 THEN acc
    ELSE LET a == AddNotes(acc, notes, j - 1)
             n == notes[j]
         IN  IF IsStrength(n)
             THEN IF Len(a.strengths) < 3
                  THEN [a EXCEPT !.strengths = Append(@, n)] ELSE a
             ELSE IF IsRisk(n)
             THEN IF Len(a.risks) < 3
                  THEN [a EXCEPT !.risks = Append(@, n)] ELSE a
             ELSE a

\* before the loop; sum is kept in 300ths and cnt in tenths, so that
\* (float64(total)/30.0)*w and w are whole numbers
NoScores == [sum300 |-> 0, cnt10 |-> 0, strengths |-> <<>>, risks |-> <<>>,
             samples |-> <<>>]

\* the loop over scores, after its first k rounds
RECURSIVE Rounds(_, _, _)
Rounds(paths, scores, k) ==
    IF k = 0 THEN NoScores
    ELSE LET a == Rounds(paths, scores, k - 1)
             sc == scores[k]
             total == Total(sc)
             w == Weight10(paths[k])
             b == [a EXCEPT !.sum300 = @ + total * w, !.cnt10 = @ + w]
             c == IF Len(b.samples) < 3 /\ sc.Citations > 0
                  THEN [b EXCEPT !.samples =
                          Append(@, [URL |-> paths[k], Note |-> first(sc.Notes)])]
                  ELSE b
         IN  IF ~Counted(total) THEN a
             ELSE AddNotes(c, sc.Notes, Len(sc.Notes))

\* int(x) for x = num/den, den > 0: the fraction is dropped
TruncDiv(num, den) ==
    IF num >= 0 THEN num \div den ELSE 0 - ((0 - num) \div den)

clamp(v, lo, hi) == IF v < lo THEN lo ELSE IF v > hi THEN hi ELSE v

\* final: (sum/cnt)*100 = (sum300/300)/(cnt10/10)*100 = 10*sum300/(3*cnt10)
FinalScore(a) ==
    IF a.cnt10 > 0 THEN clamp(TruncDiv(10 * a.sum300, 3 * a.cnt10), 0, 100)
    ELSE 0

\* the RepoResult evaluateRepo returns, with the loop's sum and cnt
aggregate(paths, scores) ==
    LET a == Rounds(paths, scores, Len(scores))
    IN  [Score |-> FinalScore(a), Strengths |-> a.strengths,
         Risks |-> a.risks, Samples |-> a.samples, Chunks |-> Len(paths),
         sum300 |-> a.sum300, cnt10 |-> a.cnt10, divided |-> a.cnt10 > 0,
         err |-> "nil"]

AggregateInit ==
    /\ \E k \in 1..MaxScored :
       \E paths \in [1..k -> ChunkPaths] : \E calls \in [1..k -> Calls] :
         fnArg = [fn |-> "evaluateRepo", chunks |-> paths, calls |-> calls]
    /\ fnRet = NoRet

AggregateRepo ==
    /\ fnArg.fn = "evaluateRepo"
    /\ ~fnRet.done
    /\ fnRet' = [done |-> TRUE,
                 val |-> aggregate(fnArg.chunks, openAIScores(fnArg.calls))]
    /\ UNCHANGED fnArg
    /\ UNCHANGED <<evalVars, cacheVars, submitVars>>


\* ------------------------------------- ArchConsideration.UnmarshalJSON
\* A JSON value: a string, a number, an array, null, or an object with the
\* members point, justification and severity, each a value or absent.
Absent == [t |-> "absent"]
JsonNull == [t |-> "null"]
JsonNumber == [t |-> "number"]
JsonArray == [t |-> "array"]
JsonString(v) == [t |-> "string", v |-> v]

PointValues == {Absent, JsonNumber, JsonString("p"), JsonString("q")}
JustificationValues == {Absent, JsonNumber, JsonString("j")}
SeverityValues ==
    {Absent, JsonNull, JsonNumber, JsonString(""), JsonString("Low"),
     JsonString("High")}

JsonObjects ==
    { [t |-> "object", point |-> pt, justification |-> ju, severity |-> sv] :
        pt \in PointValues, ju \in JustificationValues, sv \in SeverityValues }

JsonData ==
    {JsonNull, JsonNumber, JsonArray, JsonString(""), JsonString("p")}
    \cup JsonObjects

\* json.Unmarshal(data, &s) with var s string: a string is stored, null
\* leaves s as it is, anything else is an error
UnmarshalString(data) ==
    IF data.t = "string" THEN [err |-> FALSE, s |-> data.v]
    ELSE IF data.t = "null" THEN [err |-> FALSE, s |-> ""]
    ELSE [err |-> TRUE, s |-> ""]

\* a member decoded into a string field of the zero Alias: absent and null
\* leave the field empty, a string sets it
MemberOk(m) == m.t \in {"absent", "null", "string"}
MemberValue(m) == IF m.t = "string" THEN m.v ELSE ""

\* json.Unmarshal(data, &a) with var a Alias
UnmarshalAlias(data) ==
    IF data.t = "null"
    THEN [err |-> FALSE, Point |-> "", Justification |-> "", Severity |-> ""]
    ELSE IF data.t # "object"
    THEN [err |-> TRUE, Point |-> "", Justification |-> "", Severity |-> ""]
    ELSE [err |-> ~(/\ MemberOk(data.point)
                    /\ MemberOk(data.justification)
                    /\ MemberOk(data.severity)),
          Point |-> MemberValue(data.point),
          Justification |-> MemberValue(data.justification),
          Severity |-> MemberValue(data.severity)]

\* the zero ArchConsideration the element is before it is decoded
ZeroConsideration == [Point |-> "", Justification |-> "", Severity |-> ""]

\* ArchConsideration.UnmarshalJSON: the error and *ac afterwards
UnmarshalJSON(ac, data) ==
    LET s == UnmarshalString(data)
        a == UnmarshalAlias(data)
    IN  IF ~s.err
        THEN [err |-> FALSE,
              ac |-> [ac EXCEPT !.Point = s.s, !.Severity = "Low"]]
        ELSE IF a.err THEN [err |-> TRUE, ac |-> ac]
        ELSE [err |-> FALSE,
              ac |-> [Point |-> a.Point, Justification |-> a.Justification,
                      Severity |-> a.Severity]]

UnmarshalInit ==
    /\ \E data \in JsonData :
         fnArg = [fn |-> "UnmarshalJSON", data |-> data]
    /\ fnRet = NoRet

UnmarshalConsideration ==
    /\ fnArg.fn = "UnmarshalJSON"
    /\ ~fnRet.done
    /\ fnRet' = [done |-> TRUE,
                 val |-> UnmarshalJSON(ZeroConsideration, fnArg.data)]
    /\ UNCHANGED fnArg
    /\ UNCHANGED <<evalVars, cacheVars, submitVars>>

\* ------------------------------------------- decoding a response text
\* The decoding at the end of evalOne and of geminiClient.EvaluateJSON, on a
\* text made of a payload between two stretches of prose.
MaxArr == 2
MaxProse == 2

\* prose without braces: up to MaxProse words
Prose == UNION {[1..k -> {Word}] : k \in 0..MaxProse}

\* the payloads: an object, an array of objects, or a text cut short
ResponsePayloads ==
    {ObjText(1), ObjText(2), <<LBrace, Payload(1)>>}
    \cup {ArrText(n) : n \in 0..MaxArr}

\* the targets: evalOne decodes into one element; geminiClient.EvaluateJSON
\* into out, a slice or a single value
DecodeTargets ==
    {[client |-> "openai", kind |-> "struct"],
     [client |-> "gemini", kind |-> "slice"],
     [client |-> "gemini", kind |-> "struct"]}

ResponseText(a) == a.pre \o a.payload \o a.post

DecodeInit ==
    /\ \E tg \in DecodeTargets : \E payload \in ResponsePayloads :
       \E pre \in Prose : \E post \in Prose :
         fnArg = [fn |-> "decode", client |-> tg.client, kind |-> tg.kind,
                  pre |-> pre, payload |-> payload, post |-> post]
    /\ fnRet = NoRet

DecodeResponse ==
    /\ fnArg.fn = "decode"
    /\ ~fnRet.done
    /\ fnRet' = [done |-> TRUE,
                 val |-> IF fnArg.client = "openai"
                         THEN evalOneDecode(ResponseText(fnArg))
                         ELSE geminiDecode(ResponseText(fnArg), fnArg.kind)]
    /\ UNCHANGED fnArg
    /\ UNCHANGED <<evalVars, cacheVars, submitVars>>

\* --------------------------------- openAIClient.EvaluateJSON: the pacing
\* The dispatch loop alone, with a clock. Durations are in milliseconds.
MaxRpm == 61
MaxDispatch == 3
Second == 1000
Minute == 60000

max(a, b) == IF a > b THEN a ELSE b

\* the shorter of the two durations
maxDelay_Shorter(a, b) == IF a > b THEN b ELSE a

maxDelay(a, b) == IF a > b THEN a ELSE b

\* minDelay := time.Second; delay := time.Minute / time.Duration(max(1, c.rpm));
\* delay = maxDelay(delay, minDelay)
delay(rpm) == maxDelay(Minute \div max(1, rpm), Second)

\* how long sem <- struct{}{} may hold the dispatcher back
SemWaits == {0, 1}

\* the loop before its first turn: i is the index of the next chunk, at the
\* launch time of each goroutine started, naps the sleeps made after each
DispatchStart(rpm) ==
    [pc |-> "loop", i |-> 1, clock |-> 0, delay |-> delay(rpm), order |-> <<>>,
     at |-> <<>>, naps |-> <<>>]

DispatchInit ==
    /\ \E rpm \in -1..MaxRpm : \E k \in 0..MaxDispatch :
         /\ fnArg = [fn |-> "dispatch", rpm |-> rpm, k |-> k]
         /\ fnRet = [done |-> FALSE, val |-> DispatchStart(rpm)]

\* wg.Add(1); sem <- struct{}{}; go func() {...}()
DispatchLaunch ==
    /\ fnArg.fn = "dispatch"
    /\ ~fnRet.done
    /\ fnRet.val.pc = "loop"
    /\ fnRet.val.i <= fnArg.k
    /\ \E w \in SemWaits :
         fnRet' = [fnRet EXCEPT !.val.clock = @ + w,
                                !.val.order = Append(@, fnRet.val.i),
                                !.val.at = Append(@, fnRet.val.clock + w),
                                !.val.naps = Append(@, 0),
                                !.val.pc = "sleep"]
    /\ UNCHANGED fnArg
    /\ UNCHANGED <<evalVars, cacheVars, submitVars>>

\* time.Sleep(delay), and the next turn of the loop
DispatchSleep ==
    /\ fnArg.fn = "dispatch"
    /\ ~fnRet.done
    /\ fnRet.val.pc = "sleep"
    /\ fnRet' = [fnRet EXCEPT !.val.clock = @ + fnRet.val.delay,
                              !.val.naps[fnRet.val.i] = @ + 1,
                              !.val.i = @ + 1,
                              !.val.pc = "loop"]
    /\ UNCHANGED fnArg
    /\ UNCHANGED <<evalVars, cacheVars, submitVars>>

\* the loop ends: wg.Wait()
DispatchExit ==
    /\ fnArg.fn = "dispatch"
    /\ ~fnRet.done
    /\ fnRet.val.pc = "loop"
    /\ fnRet.val.i > fnArg.k
    /\ fnRet' = [fnRet EXCEPT !.done = TRUE, !.val.pc = "wait"]
    /\ UNCHANGED fnArg
    /\ UNCHANGED <<evalVars, cacheVars, submitVars>>

DispatchNext == DispatchLaunch \/ DispatchSleep \/ DispatchExit

\* ------------------------------- Submit over the fan-outs of its tasks
\* Submit's goroutines with, inside each evaluateRepo, the fan-out of
\* openAIClient.EvaluateJSON over the repository's chunks. Here repoTask[i]
\* is a record: pc is where the goroutine is, nc the number of chunks
\* sampled, next the loop variable of the dispatch loop, sem the tokens in
\* the fan-out's own channel, call where the goroutine of each chunk is
\* ("idle", "flight", "done"), outSlice the fan-out's output slots (0: the
\* zero value). Both channels have the capacity cfg.LLM.ParallelRequests.
FanOutLocals(at, nc) ==
    [pc |-> at, nc |-> nc, next |-> 1, sem |-> 0,
     call |-> [c \in 1..nc |-> "idle"], outSlice |-> [c \in 1..nc |-> 0]]

FanOutInit ==
    /\ submitPc = "wait"
    /\ \E n \in 1..MaxRepos :
         /\ repos = [i \in 1..n |-> RepoTarget(i)]
         /\ results = [i \in 1..n |-> ZeroResult]
         /\ submitWg = n
         /\ \E nc \in [1..n -> 0..MaxSample] :
              repoTask = [i \in 1..n |-> FanOutLocals("acquire", nc[i])]
    /\ submitSem = 0
    /\ report = NoReport

\* a channel that always takes one more token
RepoSemHasRoom_Unbounded == TRUE

\* sem <- struct{}{} of Submit's goroutine can proceed
RepoSemHasRoom == submitSem < para

\* sem <- struct{}{} in Submit's goroutine
FanOutAcquire(i) ==
    /\ repoTask[i].pc = "acquire"
    /\ RepoSemHasRoom
    /\ submitSem' = submitSem + 1
    /\ repoTask' = [repoTask EXCEPT ![i].pc = "eval"]
    /\ UNCHANGED <<submitPc, repos, results, submitWg, report>>
    /\ UNCHANGED <<evalVars, cacheVars, fnVars>>

\* one turn of the dispatch loop of the repository's EvaluateJSON: wg.Add(1),
\* a token of its own channel, and the goroutine of the next chunk
FanOutLaunch(i) ==
    /\ repoTask[i].pc = "eval"
    /\ repoTask[i].next <= repoTask[i].nc
    /\ repoTask[i].sem < para
    /\ repoTask' = [repoTask EXCEPT ![i].sem = @ + 1,
                                    ![i].call[repoTask[i].next] = "flight",
                                    ![i].next = @ + 1]
    /\ UNCHANGED <<submitPc, repos, results, submitSem, submitWg, report>>
    /\ UNCHANGED <<evalVars, cacheVars, fnVars>>

\* the evalOne call of chunk c returns: outSlice.Index(c).Set(...) when it
\* succeeded, then the deferred <-sem and wg.Done()
FanOutCallEnd(i, c) ==
    /\ repoTask[i].pc = "eval"
    /\ repoTask[i].call[c] = "flight"
    /\ \E ok \in BOOLEAN :
         repoTask' = [repoTask EXCEPT
                        ![i].outSlice = IF ok THEN StoreAt(@, c, c) ELSE @,
                        ![i].call[c] = "done",
                        ![i].sem = @ - 1]
    /\ UNCHANGED <<submitPc, repos, results, submitSem, submitWg, report>>
    /\ UNCHANGED <<evalVars, cacheVars, fnVars>>

\* a Wait that returns while goroutines are running
FanOutJoined_NoWait(i) == TRUE

\* wg.Wait() of EvaluateJSON can return: every goroutine started has ended
FanOutJoined(i) == \A c \in 1..repoTask[i].nc : repoTask[i].call[c] # "flight"

\* the dispatch loop is over and wg.Wait() returns; outSlice is copied to the
\* caller's scores, evaluateRepo aggregates them and returns, results[i] = res,
\* then the deferred <-sem and wg.Done() of Submit's goroutine
FanOutReturn(i) ==
    /\ repoTask[i].pc = "eval"
    /\ repoTask[i].next > repoTask[i].nc
    /\ FanOutJoined(i)
    /\ results' = [results EXCEPT ![i] =
         RepoResult(repos[i],
                    IF \E c \in 1..repoTask[i].nc : repoTask[i].outSlice[c] # 0
                    THEN CHOOSE sc \in PosScores : TRUE ELSE 0,
                    FALSE, repoTask[i].nc, repoTask[i].nc, "")]
    /\ submitSem' = submitSem - 1
    /\ submitWg' = submitWg - 1
    /\ repoTask' = [repoTask EXCEPT ![i] = FanOutLocals("done", 0)]
    /\ UNCHANGED <<submitPc, repos, report>>
    /\ UNCHANGED <<evalVars, cacheVars, fnVars>>

FanOutNext ==
    \/ \E i \in 1..Len(repos) : FanOutAcquire(i)
    \/ \E i \in 1..Len(repos) : FanOutLaunch(i)
    \/ \E i \in 1..Len(repos) : \E c \in 1..repoTask[i].nc : FanOutCallEnd(i, c)
    \/ \E i \in 1..Len(repos) : FanOutReturn(i)
    \/ SubmitReport

\* -------------------------------------- evaluateRepo: a chunk's weight
WeightInit ==
    /\ \E p \in Paths : fnArg = [fn |-> "weight", p |-> p]
    /\ fnRet = NoRet

\* w of one turn of the loop over scores, in tenths
ChunkWeight ==
    /\ fnArg.fn = "weight"
    /\ ~fnRet.done
    /\ fnRet' = [done |-> TRUE, val |-> Weight10(fnArg.p)]
    /\ UNCHANGED fnArg
    /\ UNCHANGED <<evalVars, cacheVars, submitVars>>

\* evaluateRepo of repository i before its first LLM call: the failure of
\* GetLatestCommitSHA is only logged and leaves sha empty, and the Printf of
\* sha[:7] then panics in Submit's goroutine, which ends the process
FanOutShaPanic(i) ==
    /\ Alive
    /\ repoTask[i].pc = "eval"
    /\ repoTask[i].next = 1
    /\ \E n \in {0, ShaLen} : ~CanSlice(n)
    /\ submitPc' = "crashed"
    /\ UNCHANGED <<repos, results, submitSem, submitWg, repoTask, report>>
    /\ UNCHANGED <<evalVars, cacheVars, fnVars>>

\* Submit from the start of its goroutines to its return, every goroutine
\* taking steps while the process is alive
TerminationNext ==
    \/ Alive /\ FanOutNext
    \/ \E i \in 1..Len(repos) : FanOutShaPanic(i)

\* the evaluators are not running
EvalIdle(p) ==
    /\ provider = "openai"
    /\ outKind = "slice"
    /\ chunks = <<>>
    /\ para = p
    /\ pc = "idle"
    /\ next = 1
    /\ sem = 0
    /\ wg = 0
    /\ task = <<>>
    /\ outSlice = <<>>
    /\ firstErr = NoErr
    /\ errMu = 0
    /\ out = <<>>
    /\ retErr = NoErr
    /\ launched = <<>>
    /\ llmOk = TRUE

\* ======================================================= specifications
\* one EvaluateJSON call, of either client
Init == EvalInit /\ CacheInit /\ SubmitIdle /\ FnIdle

Next == EvalNext

Spec == Init /\ [][Next]_vars

\* the cache primitives readCache and writeCache, and the clock
InitCache == EvalIdle(1) /\ CacheInit /\ SubmitIdle /\ FnIdle
SpecCache == InitCache /\ [][CacheNext]_vars

\* ghRepoImpl's cached calls over the same cache directory
InitGh == EvalIdle(1) /\ GhInit /\ SubmitIdle /\ FnIdle
SpecGh == InitGh /\ [][GhNext]_vars

\* the live merge of DiscoverUserRepos over every answer of the provider
InitDiscoverLive == EvalIdle(1) /\ DiscoverLiveInit /\ SubmitIdle /\ FnIdle
SpecDiscoverLive == InitDiscoverLive /\ [][DiscoverLiveNext]_vars

\* DiscoverUserRepos called again and again as time passes
InitDiscover == EvalIdle(1) /\ DiscoverInit /\ SubmitIdle /\ FnIdle
SpecDiscover == InitDiscover /\ [][DiscoverNext]_vars

\* scorePath on every path made of the pieces
InitScorePath == EvalIdle(1) /\ CacheInit /\ SubmitIdle /\ ScorePathInit
SpecScorePath == InitScorePath /\ [][ScorePath]_vars

\* pickPaths on every tree of at most MaxTree paths
InitPickPaths == EvalIdle(1) /\ CacheInit /\ SubmitIdle /\ PickPathsInit
SpecPickPaths == InitPickPaths /\ [][PickPaths]_vars

\* the aggregation of evaluateRepo on every repository of at most MaxScored
\* chunks
InitAggregate == EvalIdle(1) /\ CacheInit /\ SubmitIdle /\ AggregateInit
SpecAggregate == InitAggregate /\ [][AggregateRepo]_vars

\* ArchConsideration.UnmarshalJSON on every JSON value of JsonData
InitUnmarshal == EvalIdle(1) /\ CacheInit /\ SubmitIdle /\ UnmarshalInit
SpecUnmarshal == InitUnmarshal /\ [][UnmarshalConsideration]_vars

\* the decoding of every response text made of prose, a payload and prose
InitDecode == EvalIdle(1) /\ CacheInit /\ SubmitIdle /\ DecodeInit
SpecDecode == InitDecode /\ [][DecodeResponse]_vars

\* the dispatch loop for every requestsPerMinute up to MaxRpm and up to
\* MaxDispatch chunks
InitDispatch == EvalIdle(1) /\ CacheInit /\ SubmitIdle /\ DispatchInit
SpecDispatch == InitDispatch /\ [][DispatchNext]_vars

\* Submit's tasks with the fan-out of each, cfg.LLM.ParallelRequests in
\* 1..MaxPara
InitFanOut == (\E p \in 1..MaxPara : EvalIdle(p)) /\ CacheInit /\ FanOutInit /\ FnIdle
SpecFanOut == InitFanOut /\ [][FanOutNext]_vars

\* the weight of a chunk for every path of Paths
InitWeight == EvalIdle(1) /\ CacheInit /\ SubmitIdle /\ WeightInit
SpecWeight == InitWeight /\ [][ChunkWeight]_vars

\* ReadFile on the paths of FilePaths, again and again
InitReadFile == EvalIdle(1) /\ CacheInit /\ SubmitIdle /\ FnIdle
SpecReadFile == InitReadFile /\ [][ReadFileNext]_vars

\* Submit's tasks with the fan-out of each, where every goroutine that can
\* take a step eventually takes one and every external call returns
SpecTermination ==
    InitFanOut /\ [][TerminationNext]_vars /\ WF_vars(TerminationNext)

\* one Submit call, with cfg.LLM.ParallelRequests in 1..MaxPara
InitSubmit == (\E p \in 1..MaxPara : EvalIdle(p)) /\ CacheInit /\ SubmitInit /\ FnIdle
SpecSubmit == InitSubmit /\ [][SubmitNext]_vars

\* ===================================================== the fan-out properties
FanOut == provider = "openai" /\ OutAccepted
FanOutReturned == FanOut /\ pc = "returned"
InFlight == Cardinality({i \in Tasks : task[i].pc = "call"})
Failed == {i \in Tasks : task[i].failed}

\* C2: during one openAIClient.EvaluateJSON with parallelism P >= 1, at most P
\* evalOne calls are in flight in every reachable state.
C2_InFlightAtMostPara == provider = "openai" => InFlight <= para

\* P calls in flight, the dispatcher blocked on the semaphore with a chunk left
C2_Witness ==
    /\ FanOut
    /\ para >= 2
    /\ InFlight = para
    /\ pc = "loop"
    /\ next <= K

C3_ReturnedAligned ==
    FanOutReturned =>
        /\ Len(out) = K
        /\ \A i \in Tasks :
             out[i] = IF i \in Failed THEN ZeroVal ELSE chunks[i].Content

C3_OwnIndexOnly ==
    [][pc # "entry" =>
         \A j \in Tasks : outSlice'[j] # outSlice[j] => task[j].pc = "store"]_vars

\* C3: when the fan-out returns, out has one entry per input chunk; entry i is
\* the decoded result of chunk i if its call succeeded and the zero value
\* otherwise, whatever order the calls completed in; and an entry of outSlice
\* changes only by the store of the goroutine of that index.
C3_OutputAligned == []C3_ReturnedAligned /\ C3_OwnIndexOnly

\* a returned fan-out of three chunks of which the middle one failed
C3_Witness ==
    /\ FanOutReturned
    /\ K = 3
    /\ Failed = {2}
    /\ out = <<chunks[1].Content, ZeroVal, chunks[3].Content>>

\* C4: a failed call never cancels or prevents another: the dispatcher can
\* launch the next chunk whenever the semaphore has room, an error recorded or
\* not, and the fan-out returns only when every chunk has been launched and
\* has run to completion.
C4_FailureCancelsNothing ==
    /\ FanOutReturned => \A i \in Tasks : task[i].pc = "done"
    /\ (FanOut /\ pc = "loop" /\ next <= K /\ sem < para) => ENABLED Dispatch

\* with parallelism 1, the last chunk was launched after the first had failed,
\* and succeeded
C4_Witness ==
    /\ FanOutReturned
    /\ para = 1
    /\ K >= 2
    /\ 1 \in Failed
    /\ K \notin Failed

C5_ReturnedError ==
    FanOutReturned =>
        /\ (retErr = NoErr) <=> (Failed = {})
        /\ retErr # NoErr => retErr.task \in Failed

C5_SetOnceByFailingCall ==
    [][/\ firstErr # NoErr => firstErr' = firstErr
       /\ firstErr' # firstErr =>
            \E i \in Tasks : task[i].pc = "set" /\ firstErr' = task[i].err]_vars

\* C5: the fan-out returns nil exactly when every call succeeded, otherwise the
\* error of a failed call; the first-error holder is set only by a failing call,
\* to its own error, and once set it is never overwritten, under every
\* interleaving of the failing calls.
C5_FirstErrorWins == []C5_ReturnedError /\ C5_SetOnceByFailingCall

\* two calls failed and the one later in input order recorded its error first
C5_Witness ==
    /\ FanOutReturned
    /\ {1, 2} \subseteq Failed
    /\ retErr.task = 2

\* C6: with either provider and either expected shape, a call whose LLM
\* responses were all well-formed JSON of the expected shape returns no error.
C6_BothShapesSupported == (pc = "returned" /\ llmOk) => retErr = NoErr

\* C7: a call that was served dispatched exactly one LLM call per chunk, each
\* carrying its own chunk's content.
C7_OneCallPerChunk ==
    (pc = "returned" /\ (provider = "openai" => OutAccepted)) =>
        launched = [i \in Tasks |-> chunks[i].Content]

\* ------------------------------------------------------------ the cache
ReadDone == ev.op = "read"
ReadStat == files[ev.path]
ReadAge == now - files[ev.path].mtime
ReadDecoded == jsonUnmarshal(KindOf(ev.path), files[ev.path].content)

\* C8: readCache reports a hit only when the file exists, its age is within
\* the ttl and its content deserializes into the target (and, when no system
\* call fails, whenever they all hold); a file that Stat reports missing, or
\* older than the ttl, gives (false, nil) and leaves the target as it was.
C8_HitOnlyWhenFresh ==
    ReadDone =>
        /\ ev.hit <=> /\ ev.io = "ok"
                      /\ ReadStat.exists
                      /\ ReadAge <= ev.ttl
                      /\ ReadDecoded.ok
        /\ ev.hit => ev.err = NoErr /\ ev.target = ReadDecoded.val
        /\ (ev.io # "stat" /\ (~ReadStat.exists \/ ReadAge > ev.ttl)) =>
               ~ev.hit /\ ev.err = NoErr /\ ev.target = ev.target0

\* a read that hits a file aged exactly its ttl and changes the target
C8_Witness ==
    /\ ReadDone
    /\ ev.hit
    /\ ev.ttl > 0
    /\ ReadAge = ev.ttl
    /\ ev.target # ev.target0

\* C9: a value written to a path by writeCache and read back by readCache
\* before the ttl elapses, with no system call failing, is returned unchanged,
\* and what is returned is the value of the last write to that path.
C9_ReadAfterWrite ==
    ReadDone =>
        /\ (/\ lastWrite[ev.path].ok
            /\ ev.io = "ok"
            /\ now - lastWrite[ev.path].at <= ev.ttl) =>
               ev.hit /\ ev.target = lastWrite[ev.path].val
        /\ (ev.hit /\ lastWrite[ev.path].ok) =>
               ev.target = lastWrite[ev.path].val

\* a read returns the value of a write that replaced a different one
C9_Witness ==
    /\ ReadDone
    /\ ev.hit
    /\ lastWrite[ev.path].ok
    /\ lastWrite[ev.path].over
    /\ now > lastWrite[ev.path].at
    /\ ev.target = lastWrite[ev.path].val
    /\ ev.target # ev.target0

GhDone == ev.op \in GhOps

\* C10: no cache failure is fatal to DiscoverUserRepos, ListTree or ReadFile:
\* when the cache path cannot be derived, or the cache read or write fails,
\* the call goes on to the live fetch and returns its result, so a call
\* returns an error only when its live fetch failed.
C10_CacheFailureNeverFatal ==
    GhDone =>
        /\ (ev.pathErr \/ ev.rerr # NoErr) => ev.live # "none"
        /\ ev.err # NoErr => ev.live \in {"fail", "content"}
        /\ ev.live = "ok" => ev.err = NoErr

\* ------------------------------------------------------------ Submit
\* the entries of results that are for repository r
EntriesFor(r) == {i \in 1..Len(results) : results[i].Repo = r}

\* C1: whatever step of a repository's evaluation fails, no goroutine brings
\* the process down, and the report Submit returns has exactly one entry per
\* discovered repository, a failed repository's entry having score 0 and
\* empty fields.
C1_RepoFailureNeverAborts ==
    /\ submitPc # "crashed"
    /\ submitPc = "returned" =>
         /\ Len(results) = Len(repos)
         /\ \A k \in 1..Len(repos) : Cardinality(EntriesFor(repos[k])) = 1
         /\ \A i \in 1..Len(results) :
              results[i].failed # "" =>
                  results[i] = EmptyResult(results[i].Repo, results[i].failed)

\* ------------------------------------------------------------ discovery
LiveDone == ev.op = "live"

\* the pinned nodes the options keep, in query order
WantedPinned ==
    IF ev.opt.IncludePinned
    THEN SelectSeq(query.pinned,
                   LAMBDA r : r # NoName /\ (ev.opt.ExcludeForks => ~IsFork[r]))
    ELSE <<>>

\* the owned repositories the options keep that are not among the pinned
WantedOthers ==
    IF ev.opt.IncludeNonPinned
    THEN {r \in SeqRange(query.owned) \ SeqRange(WantedPinned) :
            r # NoName /\ (ev.opt.ExcludeForks => ~IsFork[r])}
    ELSE {}

WantedLen ==
    LET total == Len(WantedPinned) + Cardinality(WantedOthers)
    IN  IF ev.opt.Limit > 0 /\ ev.opt.Limit < total THEN ev.opt.Limit ELSE total

\* C11: a live discovery returns the kept pinned repositories in query order,
\* then the kept non-pinned ones not already present by descending stars,
\* the whole cut to the first Limit entries when Limit > 0; no repository
\* twice; pinned [A(5), B(1)], owned [B(1), C(50)], Limit 2 gives [A, B].
C11_LiveDiscoveryOrder ==
    LiveDone =>
        LET ret == ev.ret
            np == Len(WantedPinned)
        IN  /\ \A i, j \in 1..Len(ret) : i # j => ret[i] # ret[j]
            /\ Len(ret) = WantedLen
            /\ \A i \in 1..Len(ret) :
                 IF i <= np THEN ret[i] = WantedPinned[i]
                 ELSE ret[i] \in WantedOthers
            /\ \A i, j \in (np + 1)..Len(ret) :
                 i < j => StargazerCount[ret[i]] >= StargazerCount[ret[j]]
            /\ \A i \in (np + 1)..Len(ret) :
               \A r \in WantedOthers \ SeqRange(ret) :
                 StargazerCount[ret[i]] >= StargazerCount[r]
            /\ (/\ query = ScenarioQuery
                /\ ev.opt = [Limit |-> 2, IncludePinned |-> TRUE,
                             IncludeNonPinned |-> TRUE, ExcludeForks |-> FALSE])
               => ret = <<1, 2>>

\* the scenario of the claim
C11_Witness ==
    /\ LiveDone
    /\ query = ScenarioQuery
    /\ ev.opt = [Limit |-> 2, IncludePinned |-> TRUE,
                 IncludeNonPinned |-> TRUE, ExcludeForks |-> FALSE]
    /\ ev.ret = <<1, 2>>

DiscoverDone == ev.op = "DiscoverUserRepos"

\* C12: every DiscoverUserRepos call returns a list that honours the options
\* of that call, at most Limit repositories when Limit > 0, also when an
\* earlier call with other options took place less than an hour before.
C12_OptionsHonoured ==
    (DiscoverDone /\ ev.err = NoErr) =>
        /\ ev.ret \in discover(query, ev.opt)
        /\ ev.opt.Limit > 0 => Len(ev.ret) <= ev.opt.Limit

\* the cache file of a handle as a call finds it
ReposFile(path) == files[path]
ReposCached(path) == jsonUnmarshal("list", files[path].content)

\* C13: once a live discovery has written the cache entry of a handle, a
\* call within one hour, no cache system call failing, asks the provider
\* nothing and returns the cached list; a call more than one hour after the
\* write asks the provider again and, the query and the write succeeding,
\* overwrites the entry.
C13_Step ==
    (Idle /\ ev'.op = "DiscoverUserRepos") =>
        LET path == ev'.path
            f == ReposFile(path)
            age == now - f.mtime
        IN  /\ (/\ f.exists
                /\ ReposCached(path).ok
                /\ age <= 1
                /\ ev'.io = "ok") =>
                   /\ ev'.live = "none"
                   /\ ev'.err = NoErr
                   /\ ev'.ret = ReposCached(path).val
                   /\ files' = files
            /\ (f.exists /\ age > 1) =>
                   /\ ev'.live # "none"
                   /\ (ev'.live = "ok" /\ ev'.werr = NoErr) =>
                          files'[path] = [exists |-> TRUE,
                                          content |-> jsonMarshal("list", ev'.ret),
                                          mtime |-> now]

C13_CachedForOneHour == [][C13_Step]_vars

\* a call served a non-empty list from an entry exactly one hour old
C13_Witness ==
    /\ DiscoverDone
    /\ ev.live = "none"
    /\ ev.hit
    /\ now - files[ev.path].mtime = 1
    /\ ev.ret # <<>>

\* ------------------------------------------------------- path selection
ScoreDone == fnArg.fn = "scorePath" /\ fnRet.done

\* the path has a directory of one of the names above its file
UnderDir(p, names) ==
    \E i \in 1..(Len(p) - 1) :
        /\ LowerPiece(p[i]) \in names
        /\ p[i + 1] = "/"
        /\ (i = 1 \/ p[i - 1] = "/")

\* the path starts with a directory of one of the names
StartsUnder(p, names) ==
    Len(p) >= 2 /\ LowerPiece(p[1]) \in names /\ p[2] = "/"

LastPiece(p) == LowerPiece(p[Len(p)])

HardExcluded(p) ==
    \/ UnderDir(p, {"vendor", "build", "dist", "node_modules", ".git"})
    \/ LastPiece(p) \in {".png", ".jpg", ".zip", ".pdf", ".svg"}

\* C14: a path under a vendor, build, dist, node_modules or .git directory,
\* the repository root included, or with a binary or asset extension, has
\* score 0 whatever the rest of its name.
C14_HardExcludedScoresZero ==
    ScoreDone => (HardExcluded(fnArg.p) => fnRet.val = 0)

PickDone == fnArg.fn = "pickPaths" /\ fnRet.done

\* C15: for every tree and every ChunksPerRepo = n, 0 included, pickPaths
\* returns at most n paths, each an input path of non-zero score, in
\* descending order of score, and no path left out scores strictly higher
\* than a returned one.
C15_AtMostNBestPaths ==
    PickDone =>
        LET ret == fnRet.val
            entries == fnArg.entries
        IN  /\ Len(ret) <= fnArg.n
            /\ \A i \in 1..Len(ret) :
                 ret[i] \in SeqRange(entries) /\ scorePath(ret[i]) # 0
            /\ \A i, j \in 1..Len(ret) :
                 i < j => scorePath(ret[i]) >= scorePath(ret[j])
            /\ \A q \in SeqRange(entries) \ SeqRange(ret) :
               \A i \in 1..Len(ret) : scorePath(q) <= scorePath(ret[i])

NearExcluded(p) ==
    \/ LastPiece(p) = ".lock"
    \/ HasSuffix(ToLower(p), <<"go", ".sum">>)
    \/ UnderDir(p, {"gen", "docs"})
    \/ \E i \in 1..Len(p) : LowerPiece(p[i]) = "example"

\* the file is named Dockerfile
IsDockerfile(p) ==
    LastPiece(p) = "dockerfile" /\ (Len(p) = 1 \/ p[Len(p) - 1] = "/")

TypeBonus(p) ==
    IF LastPiece(p) \in {".go", ".py", ".ts", ".js", ".java", ".rs", ".swift",
                         ".kt", ".kts", ".rb", ".ex", ".exs", ".cs", ".cpp",
                         ".c", ".h", ".hpp"} THEN 50
    ELSE IF LastPiece(p) \in {".sh", ".sql"} THEN 20
    ELSE IF \/ LastPiece(p) \in {".yml", ".yaml", ".json", ".toml", ".hcl", ".tf"}
            \/ IsDockerfile(p) THEN 5
    ELSE IF LastPiece(p) \in {".md", ".txt", ".html", ".css"} THEN 2
    ELSE 0

TestNamed(p) ==
    \/ HasSuffix(ToLower(p), <<"_test", ".go">>)
    \/ ContainsDotted(ToLower(p), ".test")
    \/ ContainsDotted(ToLower(p), ".spec")

\* C16: a path neither hard-excluded nor near-excluded scores 10, plus 20
\* under internal/, pkg/, src/ or lib/, plus 15 under cmd/, plus the bonus of
\* its file type (50 source, 20 shell/SQL, 5 config/infra, a Dockerfile
\* included, 2 prose), minus 5 for a test-file name.
C16_ScoreOfOrdinaryPath ==
    (ScoreDone /\ ~HardExcluded(fnArg.p) /\ ~NearExcluded(fnArg.p)) =>
        fnRet.val = 10
                    + (IF StartsUnder(fnArg.p, {"internal", "pkg", "src", "lib"})
                       THEN 20 ELSE 0)
                    + (IF StartsUnder(fnArg.p, {"cmd"}) THEN 15 ELSE 0)
                    + TypeBonus(fnArg.p)
                    - (IF TestNamed(fnArg.p) THEN 5 ELSE 0)

\* ------------------------------------------------------- the aggregation
AggDone == fnArg.fn = "evaluateRepo" /\ fnRet.done
AggScores == openAIScores(fnArg.calls)
AllZero == \A i \in 1..Len(AggScores) : Total(AggScores[i]) = 0

\* C17: when every chunk's six sub-scores sum to zero the final score is 0,
\* nothing was added to the weighted sum nor to the weight sum, and no
\* division by the weight sum took place.
C17_NoSignalScoresZero ==
    (AggDone /\ AllZero) =>
        /\ fnRet.val.Score = 0
        /\ fnRet.val.sum300 = 0
        /\ fnRet.val.cnt10 = 0
        /\ ~fnRet.val.divided

\* all totals are zero, and one of the chunks was answered, with notes and
\* citations
C17_Witness ==
    /\ AggDone
    /\ AllZero
    /\ \E i \in 1..Len(AggScores) :
         /\ ~fnArg.calls[i].err
         /\ Len(AggScores[i].Notes) > 0
         /\ AggScores[i].Citations > 0
    /\ fnRet.val.Score = 0

\* num/den rounded to the nearest integer, den > 0
Round(num, den) == (2 * num + den) \div (2 * den)

\* C18: the final score is clamp(round(W * 100), 0, 100), W the weighted
\* average of total/30 over the chunks with non-zero total: totals 18 at
\* weight 1.0 and 24 at weight 1.2 give 71.
C18_RoundedWeightedAverage ==
    (AggDone /\ fnRet.val.cnt10 > 0) =>
        fnRet.val.Score
          = clamp(Round(10 * fnRet.val.sum300, 3 * fnRet.val.cnt10), 0, 100)

\* the indexes of the chunks whose call did not fail, in order
RECURSIVE Served(_, _)
Served(calls, k) ==
    IF k = 0 THEN <<>>
    ELSE IF calls[k].err THEN Served(calls, k - 1)
    ELSE Append(Served(calls, k - 1), k)

\* the result had the failed chunks not been sampled
WithoutFailed ==
    LET ix == Served(fnArg.calls, Len(fnArg.calls))
    IN  aggregate([j \in 1..Len(ix) |-> fnArg.chunks[ix[j]]],
                  openAIScores([j \in 1..Len(ix) |-> fnArg.calls[ix[j]]]))

\* C20: a chunk whose evaluation call failed adds nothing to the weighted
\* sum, the weight sum, the strengths, the risks or the samples, the other
\* chunks contribute what they would without it, and the evaluation of the
\* repository completes without error.
C20_FailedChunkContributesNothing ==
    AggDone =>
        /\ fnRet.val.err = "nil"
        /\ fnRet.val.sum300 = WithoutFailed.sum300
        /\ fnRet.val.cnt10 = WithoutFailed.cnt10
        /\ fnRet.val.Score = WithoutFailed.Score
        /\ fnRet.val.Strengths = WithoutFailed.Strengths
        /\ fnRet.val.Risks = WithoutFailed.Risks
        /\ fnRet.val.Samples = WithoutFailed.Samples

\* one call failed after decoding a score with notes and citations, another
\* was served and counts
C20_Witness ==
    /\ AggDone
    /\ \E i, j \in 1..Len(fnArg.calls) :
         /\ fnArg.calls[i].err
         /\ Total(fnArg.calls[i].res) # 0
         /\ Len(fnArg.calls[i].res.Notes) > 0
         /\ fnArg.calls[i].res.Citations > 0
         /\ ~fnArg.calls[j].err
         /\ Total(fnArg.calls[j].res) > 0
    /\ fnRet.val.cnt10 > 0

\* ------------------------------------------------------------ the report
Reported == submitPc = "returned" /\ report.html

\* C19: in every report Submit produces the results handed to the headline,
\* the summary and the renderer are in descending order of score, whatever
\* order the repositories' tasks finished in.
C19_ReportDescending ==
    Reported =>
        \A i \in 1..(Len(results) - 1) : results[i].Score >= results[i + 1].Score

\* the second repository scored higher than the first and is reported first
C19_Witness ==
    /\ Reported
    /\ Len(results) >= 2
    /\ results[1].Repo = repos[2]
    /\ results[2].Repo = repos[1]
    /\ results[1].Score > results[2].Score

\* ------------------------------------------------ the ArchConsideration
Decoded == fnArg.fn = "UnmarshalJSON" /\ fnRet.done /\ ~fnRet.val.err

\* the input gives a severity: an object whose severity member is a string
GivesSeverity == fnArg.data.t = "object" /\ fnArg.data.severity.t = "string"

\* C21: a successfully decoded ArchConsideration whose input carries no
\* severity, the bare string or an object without one, has Severity "Low",
\* and an object that gives a severity keeps it.
C21_MissingSeverityIsLow ==
    Decoded =>
        fnRet.val.ac.Severity
          = IF GivesSeverity THEN fnArg.data.severity.v ELSE "Low"

\* ------------------------------------------------- the response decoding
DecodeDone == fnArg.fn = "decode" /\ fnRet.done

\* the payload is well-formed JSON of the shape the target expects
PayloadExpected == Unmarshal(fnArg.payload, fnArg.kind).ok

\* C22: a response text that is one well-formed payload of the expected
\* shape, an object or an array, between prose is decoded successfully to the
\* payload's value; and a call fails only if the text and the substring from
\* the first "{" to the last "}" both fail to parse.
C22_WrappedPayloadDecoded ==
    DecodeDone =>
        /\ PayloadExpected =>
             /\ fnRet.val.ok
             /\ fnRet.val.val = Unmarshal(fnArg.payload, fnArg.kind).val
        /\ ~fnRet.val.ok =>
             /\ ~Unmarshal(ResponseText(fnArg), fnArg.kind).ok
             /\ LET x == extractJSON(ResponseText(fnArg))
                IN  ~x.ok \/ ~Unmarshal(x.js, fnArg.kind).ok

\* ------------------------------------------------------ the retry loop
\* what one step of the call of chunk i may do
C23_Step(i) ==
    (task[i].pc = "call" /\ task'[i] # task[i]) =>
        \/ \* a further attempt, after a transport failure, fewer than 3 made
           /\ task'[i].pc = "call"
           /\ task'[i].attempt = task[i].attempt + 1
           /\ task'[i].attempt < 3
           /\ ~llmOk'
        \/ \* the first successful decode ends the call with success
           /\ task'[i].pc = "store"
           /\ ~task'[i].failed
        \/ \* no choice, or a parse failure: an error at once
           /\ task'[i].pc = "lock"
           /\ task'[i].failed
           /\ task'[i].err.kind \in {"empty completion", "json parse",
                                     "json parse(2)"}
        \/ \* the third transport failure: the transport error
           /\ task'[i].pc = "lock"
           /\ task'[i].failed
           /\ task'[i].err.kind = "transport"
           /\ task[i].attempt = 2

\* C23: evalOne makes at most 3 attempts, a further one only after a
\* transport failure; a response without choices and a parse failure end the
\* call with an error at once, the first successful decode ends it with
\* success, and after 3 transport failures it fails with the transport error.
C23_AtMostThreeAttempts ==
    [][\A i \in 1..Len(chunks) : i \in DOMAIN task => C23_Step(i)]_vars

\* a call that failed with the transport error, after its third attempt
C23_Witness ==
    \E i \in 1..Len(chunks) :
        /\ task[i].pc = "lock"
        /\ task[i].err.kind = "transport"

\* ------------------------------------------------------------ the pacing
Dispatching == fnArg.fn = "dispatch"

\* C24: the chunks are launched one at a time in index order; between the
\* launch of chunk i and that of chunk i+1 the dispatcher sleeps the delay
\* once; for requestsPerMinute >= 1 the delay is at least one second, and it
\* is 60 s / requestsPerMinute when requestsPerMinute <= 60.
C24_PacedDispatch ==
    Dispatching =>
        LET s == fnRet.val
        IN  /\ s.order = [j \in 1..Len(s.order) |-> j]
            /\ \A j \in 1..(Len(s.order) - 1) :
                 /\ s.naps[j] = 1
                 /\ s.at[j + 1] - s.at[j] >= s.delay
            /\ fnRet.done => Len(s.order) = fnArg.k
            /\ fnArg.rpm >= 1 =>
                 /\ s.delay >= 1000
                 /\ fnArg.rpm <= 60 =>
                      /\ s.delay * fnArg.rpm <= 60000
                      /\ (s.delay + 1) * fnArg.rpm > 60000

\* above 60 requests per minute two chunks were launched, one second apart
C24_Witness ==
    /\ Dispatching
    /\ fnRet.done
    /\ fnArg.rpm > 60
    /\ Len(fnRet.val.order) >= 2
    /\ fnRet.val.at[2] - fnRet.val.at[1] = 1000

\* ------------------------------------------------- the two semaphores
\* the repositories being evaluated
Evaluating == {i \in 1..Len(repoTask) : repoTask[i].pc = "eval"}

\* the LLM calls in flight over the first k repositories
RECURSIVE CallsInFlight(_)
CallsInFlight(k) == IF k = 0 THEN 0 ELSE CallsInFlight(k - 1) + repoTask[k].sem

\* C25: with the configured limit P at most P repositories are being
\* evaluated at any time and at most P * P LLM calls are in flight over all
\* repositories.
C25_AtMostPSquaredCalls ==
    /\ Cardinality(Evaluating) <= para
    /\ CallsInFlight(Len(repoTask)) <= para * para

\* the calls in flight are not bounded by P: more than P of them, P >= 2
C25_Witness ==
    /\ para >= 2
    /\ Cardinality(Evaluating) = para
    /\ CallsInFlight(Len(repoTask)) > para

\* ------------------------------------------------------ the output slots
\* the slots of the fan-out of repository i that a step changes
SlotsChanged(i) ==
    {c \in 1..repoTask[i].nc : repoTask'[i].outSlice[c] # repoTask[i].outSlice[c]}

\* the entries of results that a step changes
ResultsChanged == {i \in 1..Len(results) : results'[i] # results[i]}

\* within the fan-out of repository i: a write is by the running goroutine of
\* the slot's own index, which then ends, and the slots are read only after
\* every goroutine started has ended
C26_FanOutStep(i) ==
    /\ (repoTask[i].pc = "eval" /\ repoTask'[i].pc = "eval") =>
         \A c \in SlotsChanged(i) :
             /\ SlotsChanged(i) = {c}
             /\ repoTask[i].call[c] = "flight"
             /\ repoTask'[i].call[c] = "done"
             /\ repoTask'[i].outSlice[c] = c
    /\ (repoTask[i].pc = "eval" /\ repoTask'[i].pc = "done") =>
         \A c \in 1..repoTask[i].nc : repoTask[i].call[c] = "done"

\* in Submit: a write of results is by the goroutine of the entry's own
\* index, which then ends, and results is sorted only after every goroutine
\* has ended
C26_SubmitStep ==
    /\ submitPc' = "wait" =>
         \A i \in ResultsChanged :
             /\ ResultsChanged = {i}
             /\ repoTask[i].pc = "eval"
             /\ repoTask'[i].pc = "done"
             /\ results'[i].Repo = repos[i]
    /\ (submitPc = "wait" /\ submitPc' = "returned") =>
         \A i \in 1..Len(repoTask) : repoTask[i].pc = "done"

\* C26: in Submit and in the evaluation fan-out each task writes only the
\* output slot of its own index, no two tasks write the same slot, and no
\* slot is read before every task has finished.
C26_DisjointWritesThenJoin ==
    [][/\ C26_SubmitStep
       /\ \A i \in 1..Len(repoTask) : C26_FanOutStep(i)]_vars

\* the report is made from two repositories, one of them with two chunks
\* whose slots were written
C26_Witness ==
    /\ submitPc = "returned"
    /\ Len(results) >= 2
    /\ \E i \in 1..Len(results) : results[i].Chunks >= 2 /\ results[i].Score > 0

\* ------------------------------------------------------------ the weight
WeightDone == fnArg.fn = "weight" /\ fnRet.done

\* C27: the weight of a chunk is 1.0, plus 0.1 if its lower-cased path
\* contains "test", plus 0.2 if the path is under cmd/ or under an internal/
\* directory, a top-level one included; both bonuses add up. In tenths:
C27_ChunkWeight ==
    WeightDone =>
        fnRet.val = 10
                    + (IF ContainsTest(ToLower(fnArg.p)) THEN 1 ELSE 0)
                    + (IF \/ StartsUnder(fnArg.p, {"cmd"})
                          \/ UnderDir(fnArg.p, {"internal"}) THEN 2 ELSE 0)

\* -------------------------------------------------- the order of ties
\* where q stands in the tree
TreeIndex(entries, q) == CHOOSE i \in 1..Len(entries) : entries[i] = q

\* C28: paths of equal score keep their tree order in the selection, so the
\* selected list is determined by the tree and ChunksPerRepo: any two
\* selected paths of equal score are in tree order, and a path left out with
\* the score of a selected one comes later in the tree.
C28_TiesKeepTreeOrder ==
    PickDone =>
        LET ret == fnRet.val
            entries == fnArg.entries
        IN  /\ \A i, j \in 1..Len(ret) :
                 (i < j /\ scorePath(ret[i]) = scorePath(ret[j])) =>
                     TreeIndex(entries, ret[i]) < TreeIndex(entries, ret[j])
            /\ \A i \in 1..Len(ret) :
               \A q \in SeqRange(entries) \ SeqRange(ret) :
                 scorePath(q) = scorePath(ret[i]) =>
                     TreeIndex(entries, ret[i]) < TreeIndex(entries, q)

\* --------------------------------------------------- the file contents
ReadFileDone == ev.op = "ReadFile"

\* C30: within one repository and commit, after any sequence of ReadFile
\* calls, a ReadFile served from the cache returns the content of the path it
\* was asked for, never the content cached for another path.
C30_NoPathCollision ==
    (ReadFileDone /\ ev.hit) => ev.ret = ContentOf(ev.arg)

\* ------------------------------------------- the scores and the chunks
\* C29: with either provider the score collection EvaluateJSON hands to
\* evaluateRepo (out a slice, at least one chunk sent) has no more entries
\* than the chunks sent, so every index of a score is an index of chunks.
C29_ScoresWithinChunks ==
    (pc = "returned" /\ outKind = "slice" /\ Len(chunks) >= 1) =>
        /\ Len(out) <= Len(chunks)
        /\ \A i \in 1..Len(out) : i \in DOMAIN chunks

\* ------------------------------------------------------------ termination
\* Submit has returned the report
SubmitReturned == submitPc = "returned"

\* a step in which evaluateRepo of repository i returns, its fan-out joined
FanOutJoinStep(i) == repoTask[i].pc = "eval" /\ repoTask'[i].pc = "done"

\* C31: for ParallelRequests >= 1, any number of repositories and of chunks,
\* if every external call eventually returns then Submit eventually returns,
\* and both semaphores are empty when their join completes: the fan-out's
\* own when its wg.Wait() returns, Submit's when Submit returns.
C31_SubmitReturns ==
    /\ <>SubmitReturned
    /\ [](SubmitReturned => submitSem = 0)
    /\ [][\A i \in 1..Len(repoTask) :
            FanOutJoinStep(i) => repoTask[i].sem = 0]_vars

\* -------------------------------------------------- determinism of discovery
\* C32: live discovery is deterministic: two live runs over the same provider
\* response and the same options return the same list in the same order and,
\* when truncated by limit, the same set of repositories, also when several
\* non-pinned repositories have equal star counts. Stated on one run against
\* every list a run over the same response and options may return.
C32_LiveDeterministic ==
    LiveDone =>
        \A other \in discover(query, ev.opt) :
            /\ SeqRange(other) = SeqRange(ev.ret)
            /\ other = ev.ret

====
